---- MODULE Spec2Model ----
(***************************************************************************)
(* Payslip pipeline of AveonHR: src/payslip/utils.py (coercion helpers,    *)
(* number_to_words, the computation part of build_payslip_pdf, build_zip)  *)
(* and src/payslip/services/payslip_service.py (generate_payslips), and    *)
(* of src/payslip/views.py the file store and the proposal text.           *)
(*                                                                         *)
(* Representation of Python values                                         *)
(*  - str: a sequence of pieces; a piece is a non-empty run of non-space   *)
(*    characters or the single space " ".  The string denoted is the       *)
(*    concatenation of the pieces (Text).                                  *)
(*  - int: [cr, lo] with 0 <= lo < CRORE, denoting cr * CRORE + lo         *)
(*    (Python ints are unbounded; TLC's are 32 bit).                       *)
(*  - float: [k, cr, lo, p]; k = "fin" denotes cr * CRORE + lo + p / 100   *)
(*    with 0 <= p < 100, k = "nan", "pinf", "ninf" the IEEE specials.      *)
(*  - a call's outcome: [exc, val]; exc = "none" for a normal return.      *)
(***************************************************************************)
EXTENDS Integers, Sequences, FiniteSets, TLC

VARIABLES
    columns,      \* data.columns after normalize_columns: sequence of names
    rows,         \* the data rows: sequence of functions column name -> cell
    pc,           \* position of the running call
    missing,      \* validate_columns' result (a list in set-iteration order)
    idx,          \* rows consumed by the loop of _build_payslip_files
    file_pairs,   \* the list built by _build_payslip_files
    rendered,     \* number of build_payslip_pdf invocations so far
    zip,          \* members written by build_zip, or NoZip
    result,       \* the PayslipResult returned, or NoResult
    error,        \* the exception that left the call, or NoError
    arg,          \* argument of the pure function under check
    ret,          \* its outcome
    FILE_CACHE,   \* views._FILE_CACHE: the dict token -> (bytes, content type, filename)
    requests,     \* the requests in progress: position and locals of each
    returned      \* the puts that have returned: token and what was given

vars == <<columns, rows, pc, missing, idx, file_pairs, rendered, zip, result, error, arg, ret,
          FILE_CACHE, requests, returned>>

batchVars == <<columns, rows, missing, idx, file_pairs, rendered, zip, result, error>>

storeVars == <<FILE_CACHE, requests, returned>>

\* the store as the module is imported, no request running
StoreIdle == FILE_CACHE = {} /\ requests = <<>> /\ returned = {}

(* ------------------------------------------------------------------ *)
(* Outcomes, strings                                                    *)
(* ------------------------------------------------------------------ *)

Ret(v) == [exc |-> "none", val |-> v]

Range(f) == {f[i] : i \in DOMAIN f}

Raise(e) == [exc |-> e, val |-> <<>>]

\* a Python string literal that is one word (or empty) as a str
S(w) == IF w = "" THEN <<>> ELSE <<w>>

RECURSIVE Text(_)
Text(s) == IF s = <<>> THEN "" ELSE Head(s) \o Text(Tail(s))

RECURSIVE Join(_, _)
\* sep.join(list)
Join(sep, list) ==
    IF list = <<>> THEN <<>>
    ELSE IF Len(list) = 1 THEN list[1]
    ELSE list[1] \o sep \o Join(sep, Tail(list))

\* tuple[i] of Python: negative indices count from the end
PyIndex(t, i) ==
    IF i >= 0 /\ i < Len(t) THEN Ret(t[i + 1])
    ELSE IF i < 0 /\ i >= -Len(t) THEN Ret(t[Len(t) + i + 1])
    ELSE Raise("IndexError")

(* ------------------------------------------------------------------ *)
(* Numbers                                                              *)
(* ------------------------------------------------------------------ *)

CRORE == 10000000

LAKH == 100000

THOUSAND == 1000

HUNDRED == 100

PyInt(cr, lo) == [cr |-> cr, lo |-> lo]

Fin(cr, lo, p) == [k |-> "fin", cr |-> cr, lo |-> lo, p |-> p]

NaN == [k |-> "nan", cr |-> 0, lo |-> 0, p |-> 0]

PInf == [k |-> "pinf", cr |-> 0, lo |-> 0, p |-> 0]

NInf == [k |-> "ninf", cr |-> 0, lo |-> 0, p |-> 0]

Zero == Fin(0, 0, 0)

\* the value of a Python int beyond the range of float (above about 1.8e308)
Huge == [k |-> "huge", cr |-> 0, lo |-> 0, p |-> 0]

\* bool(x) of a float: every float but 0.0 is true, NaN and the infinities included
Truthy(x) == x # Zero

\* a or b
PyOr(a, b) == IF Truthy(a) THEN a ELSE b

\* a + b of floats
FAdd(a, b) ==
    IF a.k = "nan" \/ b.k = "nan" THEN NaN
    ELSE IF a.k = "pinf" THEN (IF b.k = "ninf" THEN NaN ELSE PInf)
    ELSE IF a.k = "ninf" THEN (IF b.k = "pinf" THEN NaN ELSE NInf)
    ELSE IF b.k # "fin" THEN b
    ELSE LET p == a.p + b.p
             lo == a.lo + b.lo + (p \div 100)
         IN  Fin(a.cr + b.cr + (lo \div CRORE), lo % CRORE, p % 100)

\* -a
FNeg(a) ==
    IF a.k = "nan" THEN NaN
    ELSE IF a.k = "pinf" THEN NInf
    ELSE IF a.k = "ninf" THEN PInf
    ELSE LET p == -a.p
             lo == (p \div 100) - a.lo
         IN  Fin((lo \div CRORE) - a.cr, lo % CRORE, p % 100)

\* a - b of floats
FSub(a, b) == FAdd(a, FNeg(b))

\* round(x): half to even; NaN and the infinities have no integer
\* int(x): the fractional part is dropped
PyRound_truncating(x) ==
    IF x.k = "nan" THEN Raise("ValueError")
    ELSE IF x.k # "fin" THEN Raise("OverflowError")
    ELSE Ret(PyInt(x.cr, x.lo))

PyRound(x) ==
    IF x.k = "nan" THEN Raise("ValueError")
    ELSE IF x.k # "fin" THEN Raise("OverflowError")
    ELSE LET up == x.p > 50 \/ (x.p = 50 /\ x.lo % 2 = 1)
             lo == x.lo + (IF up THEN 1 ELSE 0)
         IN  Ret(PyInt(x.cr + (lo \div CRORE), lo % CRORE))

(* ------------------------------------------------------------------ *)
(* Cells and safe_number                                                *)
(* ------------------------------------------------------------------ *)

None == [t |-> "none", s |-> <<>>, v |-> Zero]

FloatCell(x) == [t |-> "float", s |-> <<>>, v |-> x]

\* an integer cell holding cr * CRORE + lo
IntCell(cr, lo) == [t |-> "int", s |-> <<>>, v |-> Fin(cr, lo, 0)]

\* an integer cell too large for a float
HugeIntCell == [t |-> "int", s |-> <<>>, v |-> Huge]

\* a text cell; s is a str (a sequence of pieces)
StrCell(s) == [t |-> "str", s |-> s, v |-> Zero]

\* a date or datetime cell
DateCell(s) == [t |-> "date", s |-> s, v |-> Zero]

\* an empty spreadsheet cell, which pandas reads as float NaN
Blank == FloatCell(NaN)

\* the whitespace characters of the texts used here
IsSpace(c) == c \in {" ", "\t", "\n"}

RECURSIVE LStrip(_)
LStrip(s) == IF s # <<>> /\ IsSpace(Head(s)) THEN LStrip(Tail(s)) ELSE s

RECURSIVE RStrip(_)
RStrip(s) == IF s # <<>> /\ IsSpace(s[Len(s)]) THEN RStrip(SubSeq(s, 1, Len(s) - 1)) ELSE s

\* s.strip()
Strip(s) == RStrip(LStrip(s))

\* s.replace(old, new) for one-character old and new
Replace(s, old, new) == [i \in 1..Len(s) |-> IF s[i] = old THEN new ELSE s[i]]

\* float(s) of the cell texts used here: leading and trailing blanks are
\* ignored, "inf" and "nan" are accepted, any other text raises ValueError
PyFloatOfStr(s) ==
    LET w == Text(Strip(s))
    IN  CASE w = "1234.5" -> Ret(Fin(0, 1234, 50))
          [] w = "42" -> Ret(Fin(0, 42, 0))
          [] w = "0" -> Ret(Zero)
          [] w = "-7" -> Ret(Fin(-1, CRORE - 7, 0))
          [] w = "inf" -> Ret(PInf)
          [] w = "-inf" -> Ret(NInf)
          [] w = "nan" -> Ret(NaN)
          [] w = "1e999" -> Ret(PInf)
          [] OTHER -> Raise("ValueError")

\* float(value)
PyFloat(value) ==
    CASE value.t = "float" -> Ret(value.v)
      [] value.t = "int" -> IF value.v.k = "huge" THEN Raise("OverflowError") ELSE Ret(value.v)
      [] value.t = "str" -> PyFloatOfStr(value.s)
      [] OTHER -> Raise("TypeError")

\* safe_number: only TypeError and ValueError are caught
safe_number_call(value) ==
    IF value.t = "none" \/ (value.t = "float" /\ value.v.k = "nan") THEN Ret(Zero)
    ELSE IF value.t = "str" /\ Text(Strip(value.s)) \in {"", "-"} THEN Ret(Zero)
    ELSE LET f == PyFloat(value)
         IN  IF f.exc \in {"TypeError", "ValueError"} THEN Ret(Zero) ELSE f

\* the float safe_number returns
safe_number(value) == safe_number_call(value).val

\* int(round(...)) of a call's outcome: what the call raises goes on up
RoundOutcome(n) == IF n.exc # "none" THEN Raise(n.exc) ELSE PyRound(n.val)

(* ------------------------------------------------------------------ *)
(* number_to_words                                                      *)
(* ------------------------------------------------------------------ *)

ONES == <<"Zero", "One", "Two", "Three", "Four", "Five", "Six", "Seven",
          "Eight", "Nine", "Ten", "Eleven", "Twelve", "Thirteen", "Fourteen",
          "Fifteen", "Sixteen", "Seventeen", "Eighteen", "Nineteen">>

TENS == <<"", "", "Twenty", "Thirty", "Forty", "Fifty", "Sixty", "Seventy",
          "Eighty", "Ninety">>

convert_hundreds(number) ==
    LET hundreds == number \div HUNDRED
        remainder == number % HUNDRED
        h == IF hundreds # 0 THEN PyIndex(ONES, hundreds) ELSE Ret("")
        tens == remainder \div 10
        ones == remainder % 10
        w1 == IF hundreds # 0 THEN << S(h.val) \o <<" ", "Hundred">> >> ELSE <<>>
        w2 == IF remainder = 0 THEN <<>>
              ELSE IF remainder < 20 THEN << S(ONES[remainder + 1]) >>
              ELSE IF ones = 0 THEN << S(TENS[tens + 1]) >>
              ELSE << S(TENS[tens + 1]) \o <<" ">> \o S(ONES[ones + 1]) >>
    IN  IF h.exc # "none" THEN Raise(h.exc)
        ELSE Ret(Join(<<" ">>, w1 \o w2))

number_to_words(value) ==
    LET r == RoundOutcome(safe_number_call(value))
        amount == r.val
        crores == amount.cr
        lakhs == amount.lo \div LAKH
        thousands == (amount.lo % LAKH) \div THOUSAND
        hundreds == amount.lo % THOUSAND
        c == IF crores # 0 THEN convert_hundreds(crores) ELSE Ret(<<>>)
        l == IF lakhs # 0 THEN convert_hundreds(lakhs) ELSE Ret(<<>>)
        t == IF thousands # 0 THEN convert_hundreds(thousands) ELSE Ret(<<>>)
        h == IF hundreds # 0 THEN convert_hundreds(hundreds) ELSE Ret(<<>>)
        parts == (IF crores # 0 THEN << c.val \o <<" ", "Crore">> >> ELSE <<>>)
                 \o (IF lakhs # 0 THEN << l.val \o <<" ", "Lakh">> >> ELSE <<>>)
                 \o (IF thousands # 0 THEN << t.val \o <<" ", "Thousand">> >> ELSE <<>>)
                 \o (IF hundreds # 0 THEN << h.val >> ELSE <<>>)
    IN  IF r.exc # "none" THEN Raise(r.exc)
        ELSE IF amount = PyInt(0, 0) THEN Ret(<<"Zero">>)
        ELSE IF c.exc # "none" THEN Raise(c.exc)
        ELSE IF l.exc # "none" THEN Raise(l.exc)
        ELSE IF t.exc # "none" THEN Raise(t.exc)
        ELSE IF h.exc # "none" THEN Raise(h.exc)
        ELSE Ret(Join(<<" ">>, parts))

(* ------------------------------------------------------------------ *)
(* build_payslip_pdf: the computation of the totals and the words line  *)
(* ------------------------------------------------------------------ *)

REQUIRED_COLUMNS == {"employee_name", "employee_id", "month"}

EARNING_COLUMNS == <<"basic", "da", "hra", "transport_allowances", "food_allowances",
                     "internet_allowances", "other_allowances", "salary_arrear_allowance">>

DEDUCTION_COLUMNS == <<"pf_employee", "esi_employee", "professional_tax",
                       "salary_advance", "tds", "other_deduction">>

\* row.get(key, default): a row is a function from its column names to cells
RowGetDefault(row, key, default) == IF key \in DOMAIN row THEN row[key] ELSE default

\* row.get(key)
RowGet(row, key) == RowGetDefault(row, key, None)

RECURSIVE SumSafe(_, _, _)
\* sum(safe_number(row.get(col)) for col in cols), accumulated left to right
SumSafe(row, cols, acc) ==
    IF cols = <<>> THEN acc
    ELSE SumSafe(row, Tail(cols), FAdd(acc, safe_number(RowGet(row, Head(cols)))))

earnings_total(row) == SumSafe(row, EARNING_COLUMNS, Zero)

deductions_total(row) == SumSafe(row, DEDUCTION_COLUMNS, Zero)

\* the explicit total ignored
gross_salary_derived(row) == earnings_total(row)

gross_salary(row) == PyOr(safe_number(RowGet(row, "gross_salary")), earnings_total(row))

total_deductions(row) == PyOr(safe_number(RowGet(row, "total_deductions")), deductions_total(row))

\* the derived net taken from the column sums instead of the totals
net_total_from_sums(row) ==
    PyOr(safe_number(RowGet(row, "net_payable")), FSub(earnings_total(row), deductions_total(row)))

net_total(row) ==
    PyOr(safe_number(RowGet(row, "net_payable")), FSub(gross_salary(row), total_deductions(row)))

\* the amount columns whose safe_number raises
AmountErrors(row) ==
    {col \in Range(EARNING_COLUMNS) \cup Range(DEDUCTION_COLUMNS)
              \cup {"gross_salary", "total_deductions", "net_payable"} :
        safe_number_call(RowGet(row, col)).exc # "none"}

\* The document: the values the layout prints.  The call raises what
\* safe_number and number_to_words raise.
build_payslip_pdf(row) ==
    LET net_words == number_to_words(FloatCell(net_total(row)))
    IN  IF AmountErrors(row) # {} THEN Raise("OverflowError")
        ELSE IF net_words.exc # "none" THEN Raise(net_words.exc)
        ELSE Ret([employee_name |-> RowGet(row, "employee_name"),
                  employee_id |-> RowGet(row, "employee_id"),
                  earnings_total |-> earnings_total(row),
                  deductions_total |-> deductions_total(row),
                  gross_salary |-> gross_salary(row),
                  total_deductions |-> total_deductions(row),
                  net_total |-> net_total(row),
                  net_words |-> Text(net_words.val)])

(* ------------------------------------------------------------------ *)
(* validate_columns, the error message, file names, build_zip           *)
(* ------------------------------------------------------------------ *)

\* the orders in which a Python set of the required names may be iterated
SetOrders(set) ==
    {o \in [1..Cardinality(set) -> set] : \A i, j \in DOMAIN o : i # j => o[i] # o[j]}

\* nothing reported missing
validate_columns_none(frameColumns, order) == <<>>

\* only the first missing column is reported
validate_columns_first_only(frameColumns, order) ==
    LET all == SelectSeq(order, LAMBDA col : col \notin Range(frameColumns))
    IN  SubSeq(all, 1, 1)

\* [col for col in REQUIRED_COLUMNS if col not in frame.columns], the set
\* REQUIRED_COLUMNS being iterated in the order `order`
validate_columns(frameColumns, order) ==
    SelectSeq(order, LAMBDA col : col \notin Range(frameColumns))

\* the characters of the column names that sorted() compares
Spell(name) ==
    CASE name = "employee_name" -> <<"e","m","p","l","o","y","e","e","_","n","a","m","e">>
      [] name = "employee_id" -> <<"e","m","p","l","o","y","e","e","_","i","d">>
      [] name = "month" -> <<"m","o","n","t","h">>

\* code points in ascending order: "_" is 95, "a" is 97
Alphabet == <<"_", "a", "b", "c", "d", "e", "f", "g", "h", "i", "j", "k", "l", "m",
              "n", "o", "p", "q", "r", "s", "t", "u", "v", "w", "x", "y", "z">>

Ord(c) == CHOOSE i \in DOMAIN Alphabet : Alphabet[i] = c

RECURSIVE SeqLess(_, _)
\* a < b of two strings, by code points
SeqLess(a, b) ==
    IF b = <<>> THEN FALSE
    ELSE IF a = <<>> THEN TRUE
    ELSE IF Head(a) # Head(b) THEN Ord(Head(a)) < Ord(Head(b))
    ELSE SeqLess(Tail(a), Tail(b))

StrLess(a, b) == SeqLess(Spell(a), Spell(b))

RECURSIVE Insert(_, _)
Insert(x, sorted) ==
    IF sorted = <<>> THEN <<x>>
    ELSE IF StrLess(x, Head(sorted)) THEN <<x>> \o sorted
    ELSE <<Head(sorted)>> \o Insert(x, Tail(sorted))

RECURSIVE Sorted(_)
\* sorted(list)
Sorted(list) == IF list = <<>> THEN <<>> ELSE Insert(Head(list), Sorted(Tail(list)))

RECURSIVE JoinText(_, _)
\* sep.join(list) of plain texts
JoinText(sep, list) ==
    IF list = <<>> THEN ""
    ELSE IF Len(list) = 1 THEN list[1]
    ELSE list[1] \o sep \o JoinText(sep, Tail(list))

\* the names joined in the order found
missing_cols_unsorted(missingList) == JoinText(", ", missingList)

\* ", ".join(sorted(missing))
missing_cols(missingList) == JoinText(", ", Sorted(missingList))

\* the ValueError of generate_payslips
MissingColumnsError(missingList) ==
    [exc |-> "ValueError",
     msg |-> "Missing required columns in Excel: " \o missing_cols(missingList),
     row |-> 0]

Digits == <<"0", "1", "2", "3", "4", "5", "6", "7", "8", "9">>

RECURSIVE NatStr(_)
\* str(n) of an int 0 <= n
NatStr(n) == IF n < 10 THEN <<Digits[n + 1]>> ELSE NatStr(n \div 10) \o <<Digits[(n % 10) + 1]>>

\* str(value) of a cell value
PyStr(value) ==
    CASE value.t = "str" -> value.s
      [] value.t = "none" -> <<"None">>
      [] value.t = "float" /\ value.v.k = "nan" -> <<"nan">>
      [] value.t = "float" /\ value.v.k = "pinf" -> <<"inf">>
      [] value.t = "float" /\ value.v.k = "ninf" -> <<"-inf">>
      [] value.t = "float" /\ value.v.k = "fin" /\ value.v.cr = 0 ->
            NatStr(value.v.lo) \o <<".">>
            \o (IF value.v.p % 10 = 0 THEN <<Digits[(value.v.p \div 10) + 1]>>
                ELSE <<Digits[(value.v.p \div 10) + 1], Digits[(value.v.p % 10) + 1]>>)
      [] value.t = "int" /\ value.v.cr = 0 -> NatStr(value.v.lo)
      [] value.t = "date" -> value.s

\* the text of the cell with its spaces replaced but not trimmed
FilePart_untrimmed(row, key, default) ==
    Replace(PyStr(RowGetDefault(row, key, StrCell(<<default>>))), " ", "_")

\* str(row.get(key, default)).strip().replace(" ", "_")
FilePart(row, key, default) ==
    Replace(Strip(PyStr(RowGetDefault(row, key, StrCell(<<default>>)))), " ", "_")

\* f"payslip_{employee_name}_{employee_id}.pdf"
PayslipFilename(row) ==
    <<"payslip_">> \o FilePart(row, "employee_name", "employee") \o <<"_">>
    \o FilePart(row, "employee_id", "id") \o <<".pdf">>

\* an archive keyed by member name: a later pair of the same name replaces
\* the earlier one
build_zip_by_name(pairs) ==
    [members |-> SelectSeq([i \in 1..Len(pairs) |-> [name |-> pairs[i][1], content |-> pairs[i][2]]],
                           LAMBDA m : \A j \in 1..Len(pairs) :
                               (Text(pairs[j][1]) = Text(m.name)) => pairs[j][2] = m.content)]

\* build_zip: writestr appends one member per pair, in order; a name already
\* in the archive is written again as a further member
build_zip(pairs) ==
    [members |-> [i \in 1..Len(pairs) |-> [name |-> pairs[i][1], content |-> pairs[i][2]]]]

NoZip == [built |-> FALSE]

NoResult == [content_type |-> "none"]

NoError == [exc |-> "none", msg |-> "", row |-> 0]

NoValue == [exc |-> "not called", val |-> <<>>]

PayslipResult(content, content_type, filename, preview_content, preview_filename) ==
    [content |-> content, content_type |-> content_type, filename |-> filename,
     preview_content |-> preview_content, preview_filename |-> preview_filename]

(* ------------------------------------------------------------------ *)
(* The spreadsheets of the batch specification                          *)
(* ------------------------------------------------------------------ *)

MaxRows == 2

OtherColumns == <<"basic", "hra", "pf_employee", "net_payable">>

\* the normalized headers: the required columns that the sheet has, then the others
ColumnChoices ==
    {SelectSeq(<<"employee_name", "employee_id", "month">>, LAMBDA c : c \in present)
        \o OtherColumns : present \in SUBSET REQUIRED_COLUMNS}

NamePool == {StrCell(<<"Jane", " ", "Doe">>), StrCell(<<"Jane_Doe">>), StrCell(<<" ", "A", " ">>)}

IdPool == {StrCell(<<"E100">>), IntCell(0, 100)}

MonthPool == {StrCell(<<"2026-01-01">>)}

\* basic, hra, pf_employee, net_payable
AmountPool ==
    {<<IntCell(0, 30000), IntCell(0, 5000), IntCell(0, 1800), Blank>>,
     <<StrCell(<<"abc">>), Blank, StrCell(<<"-">>), FloatCell(Fin(0, 1234, 50))>>,
     <<IntCell(0, 30000), Blank, Blank, IntCell(2000, 0)>>}

CellChoices(col) ==
    CASE col = "employee_name" -> NamePool
      [] col = "employee_id" -> IdPool
      [] col = "month" -> MonthPool

RowChoices(cols) ==
    {ident @@ [c \in Range(OtherColumns) |->
                  amounts[CHOOSE i \in DOMAIN OtherColumns : OtherColumns[i] = c]] :
        ident \in [Range(cols) \ Range(OtherColumns) -> NamePool \cup IdPool \cup MonthPool],
        amounts \in AmountPool}

SheetRows(cols) ==
    LET pool == {r \in RowChoices(cols) :
                    \A c \in Range(cols) \ Range(OtherColumns) : r[c] \in CellChoices(c)}
    IN  UNION {[1..n -> pool] : n \in 0..MaxRows}

(* ------------------------------------------------------------------ *)
(* generate_payslips                                                    *)
(* ------------------------------------------------------------------ *)

Idle == arg = None /\ ret = NoValue /\ StoreIdle

Init ==
    /\ columns \in ColumnChoices
    /\ rows \in SheetRows(columns)
    /\ pc = "validate"
    /\ missing = <<>>
    /\ idx = 0
    /\ file_pairs = <<>>
    /\ rendered = 0
    /\ zip = NoZip
    /\ result = NoResult
    /\ error = NoError
    /\ Idle

\* generate_payslips up to the call of _build_payslip_files: validate, and
\* raise the ValueError when a required column is missing
Validate ==
    /\ pc = "validate"
    /\ \E order \in SetOrders(REQUIRED_COLUMNS) :
          /\ missing' = validate_columns(columns, order)
          /\ IF missing' # <<>>
             THEN error' = MissingColumnsError(missing') /\ pc' = "raised"
             ELSE error' = error /\ pc' = "rows"
    /\ UNCHANGED <<columns, rows, idx, file_pairs, rendered, zip, result, arg, ret, storeVars>>

\* a loop that drops a row whose rendering fails and goes on
RenderRow_skip ==
    /\ pc = "rows"
    /\ idx < Len(rows)
    /\ LET row == rows[idx + 1]
           pdf == build_payslip_pdf(row)
       IN  /\ rendered' = rendered + 1
           /\ idx' = idx + 1
           /\ file_pairs' = IF pdf.exc # "none" THEN file_pairs
                            ELSE Append(file_pairs, <<PayslipFilename(row), pdf.val>>)
    /\ UNCHANGED <<columns, rows, pc, missing, zip, result, error, arg, ret, storeVars>>

\* one iteration of the loop of _build_payslip_files: an exception of
\* build_payslip_pdf leaves the loop and generate_payslips
RenderRow ==
    /\ pc = "rows"
    /\ idx < Len(rows)
    /\ LET row == rows[idx + 1]
           pdf == build_payslip_pdf(row)
       IN  /\ rendered' = rendered + 1
           /\ IF pdf.exc # "none"
              THEN /\ error' = [exc |-> pdf.exc, msg |-> "", row |-> idx + 1]
                   /\ pc' = "raised"
                   /\ UNCHANGED <<idx, file_pairs>>
              ELSE /\ file_pairs' = Append(file_pairs, <<PayslipFilename(row), pdf.val>>)
                   /\ idx' = idx + 1
                   /\ UNCHANGED <<pc, error>>
    /\ UNCHANGED <<columns, rows, missing, zip, result, arg, ret, storeVars>>

\* every batch archived, a single row included
Return_always_zip ==
    /\ pc = "rows"
    /\ idx = Len(rows)
    /\ file_pairs # <<>>
    /\ zip' = build_zip(file_pairs)
    /\ result' = PayslipResult(zip', "application/zip", <<"payslips.zip">>,
                               file_pairs[1][2], file_pairs[1][1])
    /\ pc' = "returned"
    /\ UNCHANGED <<columns, rows, missing, idx, file_pairs, rendered, error, arg, ret, storeVars>>

\* generate_payslips after _build_payslip_files has returned
Return ==
    /\ pc = "rows"
    /\ idx = Len(rows)
    /\ IF Len(file_pairs) = 1
       THEN /\ result' = PayslipResult(file_pairs[1][2], "application/pdf", file_pairs[1][1],
                                       file_pairs[1][2], file_pairs[1][1])
            /\ pc' = "returned"
            /\ UNCHANGED <<zip, error>>
       ELSE /\ zip' = build_zip(file_pairs)
            /\ IF file_pairs = <<>>
               THEN /\ error' = [exc |-> "IndexError", msg |-> "", row |-> 0]
                    /\ pc' = "raised"
                    /\ UNCHANGED result
               ELSE /\ result' = PayslipResult(zip', "application/zip", <<"payslips.zip">>,
                                               file_pairs[1][2], file_pairs[1][1])
                    /\ pc' = "returned"
                    /\ UNCHANGED error
    /\ UNCHANGED <<columns, rows, missing, idx, file_pairs, rendered, arg, ret, storeVars>>

Next == Validate \/ RenderRow \/ Return

Spec == Init /\ [][Next]_vars

NoBatch ==
    /\ columns = <<>>
    /\ rows = <<>>
    /\ missing = <<>>
    /\ idx = 0
    /\ file_pairs = <<>>
    /\ rendered = 0
    /\ zip = NoZip
    /\ result = NoResult
    /\ error = NoError

\* neither a batch nor a request
BatchIdle == NoBatch /\ StoreIdle

(* ------------------------------------------------------------------ *)
(* number_to_words applied to one value                                 *)
(* ------------------------------------------------------------------ *)

MaxSmall == 1200

MaxFraction == 3

CrorePool == {0, 1, 12, 999, 1000, 1999, 2000, -1, -2001}

LoPool == {0, 1000, 99999, 100000, 123456, 2000000, 9999999}

PaisePool == {0, 49, 50, 51}

WordsArgs ==
    {FloatCell(Fin(0, n, 0)) : n \in 0..MaxSmall}
    \cup {FloatCell(Fin(cr, lo, 0)) : cr \in CrorePool, lo \in LoPool}
    \cup {FloatCell(Fin(0, n, p)) : n \in 0..MaxFraction, p \in PaisePool}
    \cup {FloatCell(Fin(0, CRORE - 1, p)) : p \in PaisePool}
    \cup {FloatCell(NaN), FloatCell(PInf), FloatCell(NInf), None,
          StrCell(<<"1234.5">>), StrCell(<<"abc">>), IntCell(0, 1000)}

InitWords ==
    /\ arg \in WordsArgs
    /\ ret = NoValue
    /\ pc = "call"
    /\ BatchIdle

CallNumberToWords ==
    /\ pc = "call"
    /\ ret' = number_to_words(arg)
    /\ pc' = "done"
    /\ UNCHANGED <<arg, columns, rows, missing, idx, file_pairs, rendered, zip, result, error, storeVars>>

NextWords == CallNumberToWords

SpecWords == InitWords /\ [][NextWords]_vars

(* ------------------------------------------------------------------ *)
(* build_payslip_pdf applied to one normalized row                      *)
(* ------------------------------------------------------------------ *)

Absent == [t |-> "absent", s |-> <<>>, v |-> Zero]

\* one further earning column and one deduction column filled besides basic
ColumnPairs ==
    {<<"da", "esi_employee">>, <<"hra", "pf_employee">>,
     <<"transport_allowances", "professional_tax">>, <<"food_allowances", "salary_advance">>,
     <<"internet_allowances", "tds">>, <<"other_allowances", "other_deduction">>,
     <<"salary_arrear_allowance", "pf_employee">>}

BasicCells == {IntCell(0, 30000), StrCell(<<"abc">>), IntCell(1999, 9999000)}

EarningCells == {IntCell(0, 5000), Blank, StrCell(<<" ", "42", " ">>), FloatCell(Fin(0, 1234, 50))}

DeductionCells == {IntCell(0, 1800), StrCell(<<"-">>), IntCell(0, 40000), StrCell(<<"inf">>)}

GrossCells == {Absent, IntCell(0, 0), IntCell(0, 50000), StrCell(<<"inf">>)}

TotalDeductionsCells == {Absent, Blank, IntCell(0, 2500)}

NetCells == {Absent, StrCell(<<>>), IntCell(0, 0), IntCell(0, 33000), IntCell(1000, 0),
             IntCell(2000, 0), FloatCell(Fin(-1, CRORE - 5, 0))}

AmountColumns ==
    Range(EARNING_COLUMNS) \cup Range(DEDUCTION_COLUMNS)
    \cup {"gross_salary", "total_deductions", "net_payable"}

\* the row with the given cells; a column given Absent is not in the sheet
MakeRow(cells) == [c \in {d \in DOMAIN cells : cells[d] # Absent} |-> cells[c]]

RenderRows ==
    {MakeRow([c \in AmountColumns \cup {"employee_name", "employee_id", "month"} |->
                CASE c = "employee_name" -> StrCell(<<"Jane", " ", "Doe">>)
                  [] c = "employee_id" -> StrCell(<<"E100">>)
                  [] c = "month" -> StrCell(<<"2026-01-01">>)
                  [] c = "basic" -> basic
                  [] c = pair[1] -> earning
                  [] c = pair[2] -> deduction
                  [] c = "gross_salary" -> gross
                  [] c = "total_deductions" -> total
                  [] c = "net_payable" -> net
                  [] OTHER -> IF full THEN Blank ELSE Absent]) :
        pair \in ColumnPairs, basic \in BasicCells, earning \in EarningCells,
        deduction \in DeductionCells, gross \in GrossCells,
        total \in TotalDeductionsCells, net \in NetCells, full \in BOOLEAN}

InitRender ==
    /\ arg \in RenderRows
    /\ ret = NoValue
    /\ pc = "call"
    /\ BatchIdle

CallBuildPayslipPdf ==
    /\ pc = "call"
    /\ ret' = build_payslip_pdf(arg)
    /\ pc' = "done"
    /\ UNCHANGED <<arg, columns, rows, missing, idx, file_pairs, rendered, zip, result, error, storeVars>>

NextRender == CallBuildPayslipPdf

SpecRender == InitRender /\ [][NextRender]_vars

(* ------------------------------------------------------------------ *)
(* Properties of the totals (SpecRender)                                *)
(* ------------------------------------------------------------------ *)

\* safe_number of a column, a column absent from the row counting as 0
CellNumber(row, col) == IF col \in DOMAIN row THEN safe_number(row[col]) ELSE Zero

EightEarnings(row) ==
    FAdd(FAdd(FAdd(FAdd(FAdd(FAdd(FAdd(FAdd(Zero,
        CellNumber(row, "basic")), CellNumber(row, "da")), CellNumber(row, "hra")),
        CellNumber(row, "transport_allowances")), CellNumber(row, "food_allowances")),
        CellNumber(row, "internet_allowances")), CellNumber(row, "other_allowances")),
        CellNumber(row, "salary_arrear_allowance"))

SixDeductions(row) ==
    FAdd(FAdd(FAdd(FAdd(FAdd(FAdd(Zero,
        CellNumber(row, "pf_employee")), CellNumber(row, "esi_employee")),
        CellNumber(row, "professional_tax")), CellNumber(row, "salary_advance")),
        CellNumber(row, "tds")), CellNumber(row, "other_deduction"))

FallbackGross(row) ==
    IF CellNumber(row, "gross_salary") # Zero THEN CellNumber(row, "gross_salary")
    ELSE EightEarnings(row)

FallbackDeductions(row) ==
    IF CellNumber(row, "total_deductions") # Zero THEN CellNumber(row, "total_deductions")
    ELSE SixDeductions(row)

Rendered == pc = "done" /\ ret.exc = "none"

\* C1: for every rendered row the gross salary is the explicit gross_salary
\* when that is nonzero and otherwise the sum of the eight earnings columns,
\* and total deductions is the explicit total_deductions when nonzero and
\* otherwise the sum of the six deduction columns.
C1_FallbackTotals ==
    Rendered =>
        /\ ret.val.gross_salary = FallbackGross(arg)
        /\ ret.val.total_deductions = FallbackDeductions(arg)

\* an explicit gross that differs from the column sum is used, while the
\* deductions, having no explicit total, are derived from a nonzero column
C1_Witness ==
    /\ Rendered
    /\ CellNumber(arg, "gross_salary") = Fin(0, 50000, 0)
    /\ EightEarnings(arg) = Fin(0, 35000, 0)
    /\ ret.val.gross_salary = Fin(0, 50000, 0)
    /\ "total_deductions" \notin DOMAIN arg
    /\ ret.val.total_deductions = Fin(0, 1800, 0)

NoExplicitTotals(row) ==
    /\ CellNumber(row, "gross_salary") = Zero
    /\ CellNumber(row, "total_deductions") = Zero
    /\ CellNumber(row, "net_payable") = Zero

\* basic 30000, hra 5000, pf_employee 1800 and nothing else
ExampleRow(row) ==
    /\ NoExplicitTotals(row)
    /\ CellNumber(row, "basic") = Fin(0, 30000, 0)
    /\ CellNumber(row, "hra") = Fin(0, 5000, 0)
    /\ CellNumber(row, "pf_employee") = Fin(0, 1800, 0)
    /\ \A c \in (Range(EARNING_COLUMNS) \cup Range(DEDUCTION_COLUMNS))
                    \ {"basic", "hra", "pf_employee"} : CellNumber(row, c) = Zero

\* C2: net payable is the explicit net_payable when nonzero, otherwise gross
\* minus total deductions as the fallback rules give them; without explicit
\* totals it is the earnings sum minus the deductions sum (33200 for basic
\* 30000, hra 5000, pf_employee 1800), and the words line is number_to_words
\* of the net.
C2_NetPayable ==
    Rendered =>
        /\ ret.val.net_total =
              IF CellNumber(arg, "net_payable") # Zero THEN CellNumber(arg, "net_payable")
              ELSE FSub(FallbackGross(arg), FallbackDeductions(arg))
        /\ NoExplicitTotals(arg) =>
              ret.val.net_total = FSub(EightEarnings(arg), SixDeductions(arg))
        /\ ret.val.net_words = Text(number_to_words(FloatCell(ret.val.net_total)).val)
        /\ ExampleRow(arg) =>
              /\ ret.val.net_total = Fin(0, 33200, 0)
              /\ ret.val.net_words = "Thirty Three Thousand Two Hundred"

C2_Witness ==
    /\ Rendered
    /\ ExampleRow(arg)
    /\ ret.val.gross_salary = Fin(0, 35000, 0)
    /\ ret.val.total_deductions = Fin(0, 1800, 0)
    /\ ret.val.net_words = "Thirty Three Thousand Two Hundred"

\* C10: whatever the cells of a row hold, the computation of the totals, the
\* net and the words line completes without raising.
C10_NeverRaises == pc = "done" => ret.exc = "none"

(* ------------------------------------------------------------------ *)
(* The Indian-scale reference wording (SpecWords)                       *)
(* ------------------------------------------------------------------ *)

UnitWord(d) ==
    CASE d = 1 -> "One" [] d = 2 -> "Two" [] d = 3 -> "Three" [] d = 4 -> "Four"
      [] d = 5 -> "Five" [] d = 6 -> "Six" [] d = 7 -> "Seven" [] d = 8 -> "Eight"
      [] d = 9 -> "Nine"

TeenWord(n) ==
    CASE n = 10 -> "Ten" [] n = 11 -> "Eleven" [] n = 12 -> "Twelve" [] n = 13 -> "Thirteen"
      [] n = 14 -> "Fourteen" [] n = 15 -> "Fifteen" [] n = 16 -> "Sixteen"
      [] n = 17 -> "Seventeen" [] n = 18 -> "Eighteen" [] n = 19 -> "Nineteen"

TensWord(t) ==
    CASE t = 2 -> "Twenty" [] t = 3 -> "Thirty" [] t = 4 -> "Forty" [] t = 5 -> "Fifty"
      [] t = 6 -> "Sixty" [] t = 7 -> "Seventy" [] t = 8 -> "Eighty" [] t = 9 -> "Ninety"

\* the words of a group 0 <= g <= 999, none for 0
GroupWords(g) ==
    LET h == g \div 100
        r == g % 100
    IN  (IF h > 0 THEN <<UnitWord(h), "Hundred">> ELSE <<>>)
        \o (IF r = 0 THEN <<>>
            ELSE IF r < 10 THEN <<UnitWord(r)>>
            ELSE IF r < 20 THEN <<TeenWord(r)>>
            ELSE IF r % 10 = 0 THEN <<TensWord(r \div 10)>>
            ELSE <<TensWord(r \div 10), UnitWord(r % 10)>>)

\* the words of crores * 10,000,000 + rest, for 0 <= crores <= 999
ReferenceWords(crores, rest) ==
    LET lakhs == rest \div 100000
        thousands == (rest % 100000) \div 1000
        below == rest % 1000
    IN  (IF crores > 0 THEN GroupWords(crores) \o <<"Crore">> ELSE <<>>)
        \o (IF lakhs > 0 THEN GroupWords(lakhs) \o <<"Lakh">> ELSE <<>>)
        \o (IF thousands > 0 THEN GroupWords(thousands) \o <<"Thousand">> ELSE <<>>)
        \o GroupWords(below)

\* a str that is words separated by single spaces: no empty word, no
\* leading, trailing or doubled separator
WellSeparated(str) ==
    /\ str # <<>>
    /\ \A i \in DOMAIN str : (str[i] = " ") <=> (i % 2 = 0)
    /\ Len(str) % 2 = 1
    /\ \A i \in DOMAIN str : str[i] # ""

NonNegativeInteger(value) ==
    /\ value.t \in {"float", "int"}
    /\ value.v.k = "fin"
    /\ value.v.cr >= 0
    /\ value.v.p = 0

\* C3: for every non-negative integer amount number_to_words returns the
\* Indian-scale reference wording: "Zero" for 0, otherwise the nonzero groups
\* crore, lakh, thousand and the remainder, each followed by its scale word,
\* single spaces between the words and no word "Zero".
C3_ReferenceWording ==
    (pc = "done" /\ NonNegativeInteger(arg)) =>
        /\ ret.exc = "none"
        /\ WellSeparated(ret.val)
        /\ arg.v = Zero => Text(ret.val) = "Zero"
        /\ arg.v # Zero =>
              /\ \A i \in DOMAIN ret.val : ret.val[i] # "Zero"
              /\ arg.v.cr <= 999 =>
                    Text(ret.val) = JoinText(" ", ReferenceWords(arg.v.cr, arg.v.lo))

\* the same for the amounts below 2000 crore, where number_to_words returns
C3_BelowTwoThousandCrore ==
    (pc = "done" /\ NonNegativeInteger(arg) /\ arg.v.cr < 2000) => C3_ReferenceWording

(* ------------------------------------------------------------------ *)
(* Properties of generate_payslips (Spec)                               *)
(* ------------------------------------------------------------------ *)

RequiredMissing == REQUIRED_COLUMNS \ Range(columns)

\* C4: validation completes before any row is rendered: while a required
\* column is missing build_payslip_pdf is never invoked, no document and no
\* archive is built and no PayslipResult is returned.
C4_ValidationFirst ==
    /\ pc = "validate" => rendered = 0
    /\ RequiredMissing # {} =>
          /\ rendered = 0
          /\ file_pairs = <<>>
          /\ zip = NoZip
          /\ result = NoResult
          /\ pc \in {"validate", "raised"}

\* the batch of a sheet with rows and without a required column has failed
C4_Witness ==
    /\ pc = "raised"
    /\ RequiredMissing # {}
    /\ Len(rows) = MaxRows
    /\ error.exc = "ValueError"
    /\ rendered = 0

\* the required names in ascending order
RequiredAscending == <<"employee_id", "employee_name", "month">>

\* C5: with required columns missing generate_payslips raises one ValueError
\* whose message is "Missing required columns in Excel: " followed by exactly
\* the missing names, each once, ascending, joined by ", ".
C5_MissingColumnsMessage ==
    (RequiredMissing # {} /\ pc # "validate") =>
        /\ pc = "raised"
        /\ error.exc = "ValueError"
        /\ error.msg = "Missing required columns in Excel: "
                \o JoinText(", ", SelectSeq(RequiredAscending, LAMBDA c : c \in RequiredMissing))

\* all three are missing and the set was iterated in descending order
C5_Witness ==
    /\ pc = "raised"
    /\ missing = <<"month", "employee_name", "employee_id">>
    /\ error.msg = "Missing required columns in Excel: employee_id, employee_name, month"

\* C6: for N >= 2 rows the result is the archive payslips.zip of type
\* application/zip holding exactly N members, the i-th being the file name
\* and the PDF of the i-th row, and the preview is the first row's PDF and
\* file name.
C6_ArchiveOfAllRows ==
    (pc = "returned" /\ Len(rows) >= 2) =>
        /\ result.content_type = "application/zip"
        /\ Text(result.filename) = "payslips.zip"
        /\ zip = result.content
        /\ Len(result.content.members) = Len(rows)
        /\ \A i \in 1..Len(rows) :
              /\ result.content.members[i].name = PayslipFilename(rows[i])
              /\ result.content.members[i].content = build_payslip_pdf(rows[i]).val
        /\ result.preview_content = build_payslip_pdf(rows[1]).val
        /\ result.preview_filename = PayslipFilename(rows[1])

\* an archive of MaxRows rows, two of which differ in employee_name and share
\* their file name
C6_Witness ==
    /\ pc = "returned"
    /\ Len(rows) = MaxRows
    /\ Len(result.content.members) = MaxRows
    /\ rows[1]["employee_name"] # rows[2]["employee_name"]
    /\ Text(PayslipFilename(rows[1])) = Text(PayslipFilename(rows[2]))

\* C7: for exactly one row the result is that row's PDF: application/pdf,
\* preview content and preview file name identical to content and file name,
\* and no archive is built.
C7_SinglePdf ==
    (pc = "returned" /\ Len(rows) = 1) =>
        /\ result.content_type = "application/pdf"
        /\ result.content = build_payslip_pdf(rows[1]).val
        /\ result.filename = PayslipFilename(rows[1])
        /\ result.preview_content = result.content
        /\ result.preview_filename = result.filename
        /\ zip = NoZip

C7_Witness ==
    /\ pc = "returned"
    /\ Len(rows) = 1
    /\ result.content_type = "application/pdf"
    /\ Text(result.filename) = "payslip_Jane_Doe_100.pdf"

\* C8: the member file names of a returned archive are pairwise distinct.
C8_DistinctFilenames ==
    (pc = "returned" /\ Len(rows) >= 2) =>
        \A i, j \in 1..Len(result.content.members) :
            i # j => Text(result.content.members[i].name) # Text(result.content.members[j].name)

\* the rows whose rendering raises
FailingRows == {k \in 1..Len(rows) : build_payslip_pdf(rows[k]).exc # "none"}

FirstFailing == CHOOSE k \in FailingRows : \A j \in FailingRows : k <= j

\* C9: if rendering fails for a row k, generate_payslips fails with that
\* failure: no PayslipResult and no archive, and the loop never goes past k.
C9_RenderFailureIsFatal ==
    (RequiredMissing = {} /\ FailingRows # {}) =>
        /\ result = NoResult
        /\ zip = NoZip
        /\ pc # "returned"
        /\ idx < FirstFailing
        /\ rendered <= FirstFailing
        /\ Len(file_pairs) < FirstFailing
        /\ pc = "raised" =>
              error = [exc |-> build_payslip_pdf(rows[FirstFailing]).exc, msg |-> "",
                       row |-> FirstFailing]

\* the second row failed after the first had been rendered
C9_Witness ==
    /\ pc = "raised"
    /\ error.row = 2
    /\ error.exc = "IndexError"
    /\ Len(file_pairs) = 1
    /\ rendered = 2
    /\ result = NoResult

(* ------------------------------------------------------------------ *)
(* safe_number applied to one value (SpecSafe)                          *)
(* ------------------------------------------------------------------ *)

MaxSafe == 12

SafeTexts ==
    {<<>>, <<" ">>, <<" ", "\t", " ">>, <<"-">>, <<" ", "-", " ">>, <<"abc">>, <<"1,234">>,
     <<"--">>, <<"12abc">>, <<"N", " ", "A">>, <<"1234.5">>, <<" ", "42", " ">>, <<"0">>,
     <<"-7">>, <<"inf">>, <<"1e999">>}

SafeArgs ==
    {FloatCell(Fin(0, n, p)) : n \in 0..MaxSafe, p \in PaisePool}
    \cup {IntCell(0, n) : n \in 0..MaxSafe}
    \cup {StrCell(t) : t \in SafeTexts}
    \cup {None, Blank, FloatCell(PInf), FloatCell(NInf), FloatCell(Fin(0, 1234, 50)),
          FloatCell(Fin(-1, CRORE - 5, 0)), IntCell(2000, 0), HugeIntCell,
          DateCell(<<"2026-01-01">>)}

InitSafe ==
    /\ arg \in SafeArgs
    /\ ret = NoValue
    /\ pc = "call"
    /\ BatchIdle

CallSafeNumber ==
    /\ pc = "call"
    /\ ret' = safe_number_call(arg)
    /\ pc' = "done"
    /\ UNCHANGED <<arg, columns, rows, missing, idx, file_pairs, rendered, zip, result, error, storeVars>>

NextSafe == CallSafeNumber

SpecSafe == InitSafe /\ [][NextSafe]_vars

\* the texts of SafeTexts that float() does not parse
UnparseableTexts == {"abc", "1,234", "--", "12abc", "N A"}

\* C11: safe_number is total: it never raises, returns 0.0 for None, NaN, an
\* empty or whitespace-only string, the dash and every string that is not a
\* parseable number, and the parsed value for a numeric string or a number.
C11_SafeNumberTotal ==
    pc = "done" =>
        /\ ret.exc = "none"
        /\ arg \in {None, Blank} => ret.val = Zero
        /\ (arg.t = "str" /\ \A i \in DOMAIN arg.s : IsSpace(arg.s[i])) => ret.val = Zero
        /\ (arg.t = "str" /\ Text(Strip(arg.s)) \in {"-"} \cup UnparseableTexts) => ret.val = Zero
        /\ arg = StrCell(<<"1234.5">>) => ret.val = Fin(0, 1234, 50)
        /\ (arg.t \in {"float", "int"} /\ arg # Blank) => ret.val = arg.v

\* the same for every value but an int beyond the range of float
C11_TotalBelowFloatRange == arg # HugeIntCell => C11_SafeNumberTotal


(* ------------------------------------------------------------------ *)
(* Header normalization: _normalize_name, ALIAS_MAP, normalize_columns  *)
(* ------------------------------------------------------------------ *)

\* the characters of a str
Chars(s) == [i \in 1..Len(s) |-> SubSeq(s, i, i)]

UPPERCASE == Chars("ABCDEFGHIJKLMNOPQRSTUVWXYZ")

LOWERCASE == Chars("abcdefghijklmnopqrstuvwxyz")

\* str.lower() of one character
Lower(c) ==
    IF c \in Range(UPPERCASE) THEN LOWERCASE[CHOOSE i \in DOMAIN UPPERCASE : UPPERCASE[i] = c]
    ELSE c

\* str.upper() of one character
Upper(c) ==
    IF c \in Range(LOWERCASE) THEN UPPERCASE[CHOOSE i \in DOMAIN LOWERCASE : LOWERCASE[i] = c]
    ELSE c

\* the class [a-z0-9]
IsAlnum(c) == c \in Range(LOWERCASE) \cup Range(Digits)

RECURSIVE SkipNonAlnum(_)
\* the rest of the text after a run of characters outside [a-z0-9]
SkipNonAlnum(s) == IF s # <<>> /\ ~IsAlnum(Head(s)) THEN SkipNonAlnum(Tail(s)) ELSE s

RECURSIVE SubNonAlnum(_)
\* re.sub(r"[^a-z0-9]+", "_", s)
SubNonAlnum(s) ==
    IF s = <<>> THEN <<>>
    ELSE IF IsAlnum(Head(s)) THEN <<Head(s)>> \o SubNonAlnum(Tail(s))
    ELSE <<"_">> \o SubNonAlnum(SkipNonAlnum(s))

\* re.sub(r"[\(\)]", " ", s)
SubParens(s) == [i \in 1..Len(s) |-> IF s[i] \in {"(", ")"} THEN " " ELSE s[i]]

RECURSIVE StripUnderscores(_)
\* s.strip("_")
StripUnderscores(s) ==
    IF s # <<>> /\ Head(s) = "_" THEN StripUnderscores(Tail(s))
    ELSE IF s # <<>> /\ s[Len(s)] = "_" THEN StripUnderscores(SubSeq(s, 1, Len(s) - 1))
    ELSE s

\* a normalization that keeps the letter case of the header
normalize_name_case_sensitive(name) ==
    LET stripped == Strip(Chars(name))
        cleaned == SubParens(Replace(Replace(stripped, "/", " "), "#", " "))
    IN  Text(StripUnderscores(SubNonAlnum(cleaned)))

\* _normalize_name
normalize_name(name) ==
    LET stripped == Strip(Chars(name))
        lowered == [i \in 1..Len(stripped) |-> Lower(stripped[i])]
        cleaned == SubParens(Replace(Replace(lowered, "/", " "), "#", " "))
    IN  Text(StripUnderscores(SubNonAlnum(cleaned)))

\* the dict literal, in source order; each alias set in the order written
COLUMN_ALIASES == <<
    [canonical |-> "employee_id",
     aliases |-> <<"employee_id", "emp_id", "employeeid", "emp code", "employee code",
                  "employee no", "employee number", "emp no">>],
    [canonical |-> "employee_name",
     aliases |-> <<"employee_name", "employee name", "emp_name", "emp name">>],
    [canonical |-> "department",
     aliases |-> <<"department", "dept">>],
    [canonical |-> "designation",
     aliases |-> <<"designation", "role">>],
    [canonical |-> "gender",
     aliases |-> <<"gender">>],
    [canonical |-> "joining_date",
     aliases |-> <<"joining_date", "date_of_joining", "doj", "joining date">>],
    [canonical |-> "bank_name",
     aliases |-> <<"bank_name", "bank">>],
    [canonical |-> "account_number",
     aliases |-> <<"account_number", "account_no", "a/c", "a/c #", "ac no", "ac_no",
                  "bank account no", "bank account number">>],
    [canonical |-> "ifsc_code",
     aliases |-> <<"ifsc_code", "ifsc">>],
    [canonical |-> "pan_number",
     aliases |-> <<"pan_number", "pan", "pan no", "pan number">>],
    [canonical |-> "pf_no",
     aliases |-> <<"pf_no", "pf number", "pf no">>],
    [canonical |-> "pf_uan",
     aliases |-> <<"pf_uan", "uan", "pf uan">>],
    [canonical |-> "location",
     aliases |-> <<"location">>],
    [canonical |-> "effective_work_days",
     aliases |-> <<"effective work days", "effective_work_days">>],
    [canonical |-> "month",
     aliases |-> <<"month", "pay_month", "payslip_month", "payslip for the month of">>],
    [canonical |-> "total_working_days",
     aliases |-> <<"total_working_days", "total working days">>],
    [canonical |-> "present_days",
     aliases |-> <<"present_days", "present days">>],
    [canonical |-> "lop_days",
     aliases |-> <<"lop_days", "lop days", "lwp", "loss of pay", "lop">>],
    [canonical |-> "pay_days",
     aliases |-> <<"pay_days", "pay days", "paid_days", "pay days(26)">>],
    [canonical |-> "days_in_month",
     aliases |-> <<"days_in_month", "days in month">>],
    [canonical |-> "basic",
     aliases |-> <<"basic">>],
    [canonical |-> "da",
     aliases |-> <<"da", "dearness allowance">>],
    [canonical |-> "hra",
     aliases |-> <<"hra", "house rent allowance">>],
    [canonical |-> "transport_allowances",
     aliases |-> <<"transport_allowances", "transport allowance", "ta">>],
    [canonical |-> "food_allowances",
     aliases |-> <<"food_allowances", "food allowance">>],
    [canonical |-> "internet_allowances",
     aliases |-> <<"internet_allowances", "internet allowance">>],
    [canonical |-> "other_allowances",
     aliases |-> <<"other_allowances", "other allowance">>],
    [canonical |-> "salary_arrear_allowance",
     aliases |-> <<"salary_arrear_allowance", "salary arrier / allowance",
                  "salary arrear allowance">>],
    [canonical |-> "gross_salary",
     aliases |-> <<"gross_salary", "gross salary">>],
    [canonical |-> "pf_employee",
     aliases |-> <<"pf_employee", "pf employee", "provident fund">>],
    [canonical |-> "pf_employer",
     aliases |-> <<"pf_employer", "pf employer">>],
    [canonical |-> "esi_employee",
     aliases |-> <<"esi_employee", "esi employee">>],
    [canonical |-> "esi_employer",
     aliases |-> <<"esi_employer", "esi employer">>],
    [canonical |-> "professional_tax",
     aliases |-> <<"professional_tax", "professional tax">>],
    [canonical |-> "salary_advance",
     aliases |-> <<"salary_advance", "salary advance">>],
    [canonical |-> "tds",
     aliases |-> <<"tds">>],
    [canonical |-> "other_deduction",
     aliases |-> <<"other_deduction", "other deduction">>],
    [canonical |-> "total_deductions",
     aliases |-> <<"total_deductions", "total deductions">>],
    [canonical |-> "net_payable",
     aliases |-> <<"net_payable", "net payable", "net pay">>]>>

\* A dict is the set of its items [k, v], no two with the same key.
\* the keys of a dict
DictKeys(d) == {item.k : item \in d}

\* d.get(k, default)
DictGet(d, k, default) ==
    IF k \in DictKeys(d) THEN (CHOOSE item \in d : item.k = k).v ELSE default

\* the dict left by the assignments d[k] = v made in the order of writes:
\* the last assignment to a key is the one that stays
DictOf(writes) ==
    {writes[i] : i \in {x \in DOMAIN writes :
                            \A y \in (x + 1)..Len(writes) : writes[y].k # writes[x].k}}

RECURSIVE AliasWrites(_)
\* the assignments of the loop of _build_alias_map over items whose alias
\* keys are computed: the canonical name's key, then the alias keys
AliasWrites(items) ==
    IF items = <<>> THEN <<>>
    ELSE LET canonical == Head(items).canonical
             keys == Head(items).keys
         IN  <<[k |-> normalize_name(canonical), v |-> canonical]>>
             \o [j \in 1..Len(keys) |-> [k |-> keys[j], v |-> canonical]]
             \o AliasWrites(Tail(items))

\* a table indexed by the aliases as written, not normalized
build_alias_map_raw_keys(table) ==
    DictOf(AliasWrites(
              [i \in 1..Len(table) |->
                  [canonical |-> table[i].canonical, keys |-> table[i].aliases]]))

\* _build_alias_map, the table traversed in the given order
build_alias_map(table) ==
    DictOf(AliasWrites(
              [i \in 1..Len(table) |->
                  [canonical |-> table[i].canonical,
                   keys |-> [j \in 1..Len(table[i].aliases) |->
                                normalize_name(table[i].aliases[j])]]]))

ALIAS_MAP == build_alias_map(COLUMN_ALIASES)

\* the headers that the alias index does not know are dropped
normalize_columns_known_only(frameColumns) ==
    LET keys == [i \in 1..Len(frameColumns) |-> normalize_name(Text(PyStr(frameColumns[i])))]
    IN  SelectSeq(keys, LAMBDA key : key \in DictKeys(ALIAS_MAP))

\* the alias index looked up by the raw header, not by its key
normalize_columns_raw_lookup(frameColumns) ==
    [i \in 1..Len(frameColumns) |->
        LET col == Text(PyStr(frameColumns[i]))
        IN  DictGet(ALIAS_MAP, col, normalize_name(col))]

\* normalize_columns: the new frame.columns
normalize_columns(frameColumns) ==
    [i \in 1..Len(frameColumns) |->
        LET key == normalize_name(Text(PyStr(frameColumns[i])))
        IN  DictGet(ALIAS_MAP, key, key)]

(* ------------------------------------------------------------------ *)
(* _build_alias_map over the traversal orders of the table (SpecAlias)  *)
(* ------------------------------------------------------------------ *)

MaxRotation == 7

\* seq, starting k places later
Rotate(seq, k) ==
    [i \in 1..Len(seq) |-> seq[((i - 1 + k) % Len(seq)) + 1]]

Reverse(seq) == [i \in 1..Len(seq) |-> seq[Len(seq) + 1 - i]]

\* the table with its items starting at item j and every alias set iterated
\* from its k-th member on, backwards if reversed
Traversal(j, k, reversed) ==
    LET items == Rotate(COLUMN_ALIASES, j)
    IN  [i \in 1..Len(items) |->
            [canonical |-> items[i].canonical,
             aliases |-> IF reversed THEN Reverse(Rotate(items[i].aliases, k))
                         ELSE Rotate(items[i].aliases, k)]]

Traversals ==
    {Traversal(j, k, reversed) :
        j \in 0..(Len(COLUMN_ALIASES) - 1), k \in 0..MaxRotation, reversed \in BOOLEAN}

InitAlias ==
    /\ arg \in Traversals
    /\ ret = NoValue
    /\ pc = "call"
    /\ BatchIdle

BuildAliasMap ==
    /\ pc = "call"
    /\ ret' = Ret(build_alias_map(arg))
    /\ pc' = "done"
    /\ UNCHANGED <<arg, columns, rows, missing, idx, file_pairs, rendered, zip, result, error, storeVars>>

NextAlias == BuildAliasMap

SpecAlias == InitAlias /\ [][NextAlias]_vars

(* ------------------------------------------------------------------ *)
(* normalize_columns then validate_columns on raw headers (SpecHeaders) *)
(* ------------------------------------------------------------------ *)

MaxHeaders == 3

Canonicals == {COLUMN_ALIASES[i].canonical : i \in DOMAIN COLUMN_ALIASES}

\* the canonical name and the listed aliases of each field
Spellings ==
    [c \in Canonicals |->
        {c} \cup UNION {Range(COLUMN_ALIASES[i].aliases) :
                            i \in {x \in DOMAIN COLUMN_ALIASES : COLUMN_ALIASES[x].canonical = c}}]

CaseStyles == {"lower", "upper", "title"}

Separators == {<<" ">>, <<"_">>, <<"-">>, <<".">>, <<" ", " ">>, <<"\t">>}

Paddings == {<<>>, <<" ", "\n">>}

\* a spelling written in a letter case, with each separator character
\* replaced by sep and with pad around it
Restyle(spelling, case, sep, pad) ==
    LET s == Chars(spelling)
        Cased(i) == CASE case = "upper" -> Upper(s[i])
                      [] case = "title" /\ (i = 1 \/ ~IsAlnum(s[i - 1])) -> Upper(s[i])
                      [] OTHER -> s[i]
        Piece(i) == IF IsAlnum(s[i]) THEN Cased(i) ELSE Text(sep)
        body == [i \in 1..Len(s) |-> Piece(i)]
    IN  Text(pad) \o Text(body) \o Text(pad)

\* the headers that are a spelling of the field in another style
Styled ==
    [c \in Canonicals |->
        {Restyle(spelling, case, sep, pad) :
            spelling \in Spellings[c], case \in CaseStyles, sep \in Separators, pad \in Paddings}]

\* headers for sheets of several columns
HeaderPool ==
    {StrCell(<<"Emp Code">>), StrCell(<<"EMPLOYEE_ID">>), StrCell(<<"employee no">>),
     StrCell(<<" Employee  Name ">>), StrCell(<<"Payslip for the Month of">>),
     StrCell(<<"Pay Days (26)">>), StrCell(<<"Foo Bar">>), StrCell(<<"Unnamed: 0">>),
     IntCell(0, 2024)}

HeaderLists ==
    {<<StrCell(<<h>>)>> : h \in UNION {Styled[c] : c \in Canonicals}}
    \cup UNION {[1..n -> HeaderPool] : n \in 0..MaxHeaders}

InitHeaders ==
    /\ arg \in HeaderLists
    /\ ret = NoValue
    /\ pc = "normalize"
    /\ BatchIdle

\* parse_salary_file: the frame's headers are normalized
NormalizeColumns ==
    /\ pc = "normalize"
    /\ columns' = normalize_columns(arg)
    /\ pc' = "normalized"
    /\ UNCHANGED <<arg, ret, rows, missing, idx, file_pairs, rendered, zip, result, error, storeVars>>

\* validate_columns on the normalized frame
ValidateColumns ==
    /\ pc = "normalized"
    /\ \E order \in SetOrders(REQUIRED_COLUMNS) :
          ret' = Ret(validate_columns(columns, order))
    /\ pc' = "validated"
    /\ UNCHANGED <<arg, columns, rows, missing, idx, file_pairs, rendered, zip, result, error, storeVars>>

\* normalize_columns on a frame whose headers are already normalized
NormalizeAgain ==
    /\ pc = "normalized"
    /\ ret' = Ret(normalize_columns([i \in 1..Len(columns) |-> StrCell(<<columns[i]>>)]))
    /\ pc' = "renormalized"
    /\ UNCHANGED <<arg, columns, rows, missing, idx, file_pairs, rendered, zip, result, error, storeVars>>

NextHeaders == NormalizeColumns \/ ValidateColumns \/ NormalizeAgain

SpecHeaders == InitHeaders /\ [][NextHeaders]_vars

\* the keys of the spellings of each field
SpellingKeys == [c \in Canonicals |-> {normalize_name(a) : a \in Spellings[c]}]

\* the text of raw header i
HeaderText(i) == Text(PyStr(arg[i]))

\* C12: a header that is the canonical name or a listed alias of a field in
\* another letter case, with other separators between the words or with
\* surrounding whitespace is mapped to that field; "Emp Code", "EMPLOYEE_ID"
\* and "employee no" are mapped to employee_id.
C12_AliasStylesMapToCanonical ==
    pc # "normalize" =>
        /\ \A i \in DOMAIN arg : \A c \in Canonicals :
              HeaderText(i) \in Styled[c] => columns[i] = c
        /\ \A i \in DOMAIN arg :
              HeaderText(i) \in {"Emp Code", "EMPLOYEE_ID", "employee no"}
                  => columns[i] = "employee_id"

C12_Witness ==
    /\ pc = "normalized"
    /\ arg = <<StrCell(<<"Emp Code">>), StrCell(<<"EMPLOYEE_ID">>), StrCell(<<"employee no">>)>>
    /\ columns = <<"employee_id", "employee_id", "employee_id">>

C14_PositionWise ==
    pc # "normalize" =>
        /\ Len(columns) = Len(arg)
        /\ \A i \in DOMAIN arg : <<columns[i]>> = normalize_columns(<<arg[i]>>)
        /\ \A i, j \in DOMAIN arg : HeaderText(i) = HeaderText(j) => columns[i] = columns[j]
        /\ \A i \in DOMAIN arg :
              normalize_name(HeaderText(i)) \notin DictKeys(ALIAS_MAP)
                  => columns[i] = normalize_name(HeaderText(i))
        /\ \A i \in DOMAIN arg :
              /\ HeaderText(i) = "Foo Bar" => columns[i] = "foo_bar"
              /\ HeaderText(i) = "Unnamed: 0" => columns[i] = "unnamed_0"
              /\ HeaderText(i) = "2024" => columns[i] = "2024"

C14_Witness ==
    /\ pc = "normalized"
    /\ arg = <<StrCell(<<"Foo Bar">>), StrCell(<<"Emp Code">>), StrCell(<<"Foo Bar">>)>>
    /\ columns = <<"foo_bar", "employee_id", "foo_bar">>

\* C15: normalizing the output of normalize_columns again returns it unchanged.
C15_Idempotent == pc = "renormalized" => ret.val = columns

C15_Witness ==
    /\ pc = "renormalized"
    /\ arg = <<StrCell(<<"Emp Code">>), StrCell(<<"Foo Bar">>)>>
    /\ ret = Ret(<<"employee_id", "foo_bar">>)

\* C16: no key belongs to two fields, and whatever the order of traversal the
\* index maps the key of every canonical name to that name and the key of
\* every alias to the alias's field, and nothing else.
C16_AliasTableUnambiguous ==
    /\ \A c, d \in Canonicals : c # d => SpellingKeys[c] \cap SpellingKeys[d] = {}
    /\ pc = "done" =>
          /\ \A c \in Canonicals :
                /\ DictGet(ret.val, normalize_name(c), "") = c
                /\ \A k \in SpellingKeys[c] : DictGet(ret.val, k, "") = c
          /\ DictKeys(ret.val) = UNION {SpellingKeys[c] : c \in Canonicals}
          /\ Cardinality(ret.val) = Cardinality(DictKeys(ret.val))
          /\ ret.val = ALIAS_MAP
          /\ DictGet(ret.val, "emp_code", "") = "employee_id"
          /\ DictGet(ret.val, "a_c", "") = "account_number"
          /\ DictGet(ret.val, "pay_days_26", "") = "pay_days"

C16_Witness ==
    /\ pc = "done"
    /\ arg # COLUMN_ALIASES
    /\ DictGet(ret.val, "employee_no", "") = "employee_id"


(* ------------------------------------------------------------------ *)
(* number_to_words and the paise of the amount (SpecWords)              *)
(* ------------------------------------------------------------------ *)

\* the words of a whole number of rupees below 1000 crore
WholeRupeeWords(crores, rest) ==
    IF crores = 0 /\ rest = 0 THEN "Zero" ELSE JoinText(" ", ReferenceWords(crores, rest))

\* a float amount that is not negative and below 1000 crore
NonNegativeAmount(value) ==
    /\ value.t = "float"
    /\ value.v.k = "fin"
    /\ value.v.cr \in 0..998

\* the whole number nearest to rupees + paise/100, the even one of two
\* equally near
NearestRupee(rupees, paise) ==
    IF 2 * paise < 100 THEN rupees
    ELSE IF 2 * paise > 100 THEN rupees + 1
    ELSE IF rupees % 2 = 0 THEN rupees ELSE rupees + 1

\* C17 as stated: the words of a non-negative amount are those of its
\* whole-rupee part, the paise being dropped.
C17_FractionDiscarded ==
    (pc = "done" /\ NonNegativeAmount(arg)) =>
        /\ ret.exc = "none"
        /\ Text(ret.val) = WholeRupeeWords(arg.v.cr, arg.v.lo)

\* C17 amended: the words of a non-negative amount are those of the amount
\* rounded to the nearest whole rupee, a half going to the even neighbour;
\* the paise are not worded.
C17_RoundedToWholeRupee ==
    (pc = "done" /\ NonNegativeAmount(arg)) =>
        LET nearest == NearestRupee(arg.v.lo, arg.v.p)
        IN  /\ ret.exc = "none"
            /\ Text(ret.val) = WholeRupeeWords(arg.v.cr + (nearest \div CRORE), nearest % CRORE)

C17_Witness ==
    /\ pc = "done"
    /\ arg = FloatCell(Fin(0, 1, 51))
    /\ Text(ret.val) = "Two"


(* ------------------------------------------------------------------ *)
(* pick_value on one row (SpecPick)                                     *)
(* ------------------------------------------------------------------ *)

RECURSIVE pick_value_first_present(_, _)
\* the value of the first key that the row has, blank or not
pick_value_first_present(row, keys) ==
    IF keys = <<>> THEN None
    ELSE IF Head(keys) \in DOMAIN row THEN row[Head(keys)]
    ELSE pick_value_first_present(row, Tail(keys))

RECURSIVE pick_value(_, _)
\* pick_value(row, *keys)
pick_value(row, keys) ==
    IF keys = <<>> THEN None
    ELSE LET value == RowGet(row, Head(keys))
         IN  IF value.t = "none" \/ (value.t = "float" /\ value.v.k = "nan")
             THEN pick_value(row, Tail(keys))
             ELSE IF value.t = "str" /\ Text(Strip(value.s)) = ""
             THEN pick_value(row, Tail(keys))
             ELSE value

\* the keys of the effective work days, in the order of the call
EffectiveWorkDaysKeys == <<"effective_work_days", "present_days", "pay_days", "total_working_days">>

\* effective_work_days of build_payslip_pdf
effective_work_days(row) == pick_value(row, EffectiveWorkDaysKeys)

\* the cells of a day column; a column given Absent is not in the sheet
DayCells ==
    {Absent, None, Blank, StrCell(<<" ", "\t">>), StrCell(<<"26">>), IntCell(0, 0),
     FloatCell(Fin(0, 22, 50))}

PickRows == {MakeRow(cells) : cells \in [Range(EffectiveWorkDaysKeys) -> DayCells]}

PickKeys ==
    {EffectiveWorkDaysKeys, Reverse(EffectiveWorkDaysKeys), <<"pay_days">>, <<>>,
     <<"present_days", "lop_days", "pay_days">>}

InitPick ==
    /\ arg \in [row : PickRows, keys : PickKeys]
    /\ ret = NoValue
    /\ pc = "call"
    /\ BatchIdle

CallPickValue ==
    /\ pc = "call"
    /\ ret' = Ret(pick_value(arg.row, arg.keys))
    /\ pc' = "picked"
    /\ UNCHANGED <<arg, columns, rows, missing, idx, file_pairs, rendered, zip, result, error, storeVars>>

\* build_payslip_pdf resolving the effective work days of the row
ResolveEffectiveWorkDays ==
    /\ pc = "call"
    /\ arg.keys = EffectiveWorkDaysKeys
    /\ ret' = Ret(effective_work_days(arg.row))
    /\ pc' = "resolved"
    /\ UNCHANGED <<arg, columns, rows, missing, idx, file_pairs, rendered, zip, result, error, storeVars>>

NextPick == CallPickValue \/ ResolveEffectiveWorkDays

SpecPick == InitPick /\ [][NextPick]_vars

\* the row has the key with a value that is not None, not NaN and not an
\* empty or whitespace-only string
Qualifies(row, key) ==
    /\ key \in DOMAIN row
    /\ row[key] \notin {None, Blank}
    /\ row[key].t = "str" => \E i \in DOMAIN row[key].s : ~IsSpace(row[key].s[i])

\* the value of the first of the keys that qualifies, None if none does
FirstQualifying(row, keys) ==
    LET q == {i \in DOMAIN keys : Qualifies(row, keys[i])}
    IN  IF q = {} THEN None
        ELSE row[keys[CHOOSE i \in q : \A j \in q : i <= j]]

\* C18: pick_value returns the value of the first key, in the order given,
\* that the row has with a value that is neither null, NaN nor an empty or
\* whitespace-only string, and None when no key qualifies; the effective
\* work days are resolved in the order effective_work_days, present_days,
\* pay_days, total_working_days.
C18_FirstQualifyingKey ==
    /\ pc = "picked" => ret = Ret(FirstQualifying(arg.row, arg.keys))
    /\ pc = "resolved" =>
          ret = Ret(FirstQualifying(arg.row, <<"effective_work_days", "present_days",
                                              "pay_days", "total_working_days">>))

C18_Witness ==
    /\ pc = "resolved"
    /\ "effective_work_days" \in DOMAIN arg.row /\ arg.row["effective_work_days"] = StrCell(<<" ", "\t">>)
    /\ "present_days" \in DOMAIN arg.row /\ arg.row["present_days"] = Blank
    /\ "pay_days" \in DOMAIN arg.row /\ arg.row["pay_days"] = IntCell(0, 0)
    /\ "total_working_days" \in DOMAIN arg.row /\ arg.row["total_working_days"] = StrCell(<<"26">>)
    /\ ret = Ret(IntCell(0, 0))


(* ------------------------------------------------------------------ *)
(* display_value on one value (SpecDisplay)                            *)
(* ------------------------------------------------------------------ *)

\* pat in s, both given by their characters
Contains(s, pat) ==
    \E i \in 1..(Len(s) - Len(pat) + 1) : SubSeq(s, i, i + Len(pat) - 1) = pat

\* s.split(" ")[0]: the characters before the first space
SplitFirst(s) ==
    IF \E i \in DOMAIN s : s[i] = " "
    THEN SubSeq(s, 1, (CHOOSE i \in DOMAIN s : s[i] = " " /\ \A j \in 1..(i - 1) : s[j] # " ") - 1)
    ELSE s

\* display_value; a date cell carries its date as the first piece of s
display_value(value) ==
    IF value.t = "none" \/ (value.t = "float" /\ value.v.k = "nan") THEN Ret(<<"-">>)
    ELSE IF value.t = "str" /\ Text(Strip(value.s)) = "" THEN Ret(<<"-">>)
    ELSE IF value.t = "float" /\ value.v.k = "fin" /\ value.v.p = 0
         THEN Ret(PyStr(IntCell(value.v.cr, value.v.lo)))
    ELSE IF value.t = "date" THEN Ret(<<value.s[1]>>)
    ELSE IF value.t = "str" /\ Contains(Chars(Text(value.s)), Chars("00:00:00"))
         THEN Ret(SplitFirst(Chars(Text(value.s))))
    ELSE Ret(PyStr(value))

DisplayTexts ==
    {<<>>, <<" ", "\t">>, <<"Jane", " ", "Doe">>, <<"E100">>, <<"26">>, <<"-">>,
     <<"2026-01-15", " ", "00:00:00">>, <<"2026-01-15", " ", "13:45:00">>, <<"2026-01-15">>,
     <<"2026-01-15", "T", "00:00:00">>, <<" ", "2026-01-15", " ", "00:00:00">>,
     <<"Shift", " ", "00:00:00">>, <<"00:00:00">>, <<"Night", " ", "shift", " ", "from", " ", "00:00:00">>}

DisplayArgs ==
    {FloatCell(Fin(0, n, p)) : n \in 0..MaxSafe, p \in PaisePool}
    \cup {IntCell(0, n) : n \in 0..MaxSafe}
    \cup {StrCell(t) : t \in DisplayTexts}
    \cup {None, Blank, FloatCell(PInf), FloatCell(NInf), FloatCell(Fin(0, 30000, 0)),
          DateCell(<<"2026-01-15">>), DateCell(<<"2026-01-15", " ", "00:00:00">>),
          DateCell(<<"2026-01-15", " ", "13:45:00">>)}

InitDisplay ==
    /\ arg \in DisplayArgs
    /\ ret = NoValue
    /\ pc = "call"
    /\ BatchIdle

CallDisplayValue ==
    /\ pc = "call"
    /\ ret' = display_value(arg)
    /\ pc' = "done"
    /\ UNCHANGED <<arg, columns, rows, missing, idx, file_pairs, rendered, zip, result, error, storeVars>>

NextDisplay == CallDisplayValue

SpecDisplay == InitDisplay /\ [][NextDisplay]_vars

\* the dates written in the texts
DateTexts == {"2026-01-15"}

\* a str that is a date followed by a midnight timestamp
MidnightStamp(value) ==
    value.t = "str" /\ \E d \in DateTexts : Text(value.s) = d \o " 00:00:00"

\* None, NaN, or an empty or whitespace-only str
BlankValue(value) ==
    \/ value \in {None, Blank}
    \/ value.t = "str" /\ \A i \in DOMAIN value.s : IsSpace(value.s[i])

\* C19: display_value never raises and returns "-" for None, NaN and an
\* empty or whitespace-only string, the integer text for a float without
\* fractional part, YYYY-MM-DD for a date or datetime, the date for a string
\* that is a date followed by the midnight timestamp 00:00:00, and the
\* natural string form otherwise, every other string unchanged.
C19_DisplayValue ==
    pc = "done" =>
        /\ ret.exc = "none"
        /\ BlankValue(arg) => Text(ret.val) = "-"
        /\ (arg.t = "float" /\ arg.v.k = "fin" /\ arg.v.p = 0) => ret.val = NatStr(arg.v.lo)
        /\ arg.t = "date" => Text(ret.val) \in DateTexts
        /\ MidnightStamp(arg) => Text(ret.val) \in DateTexts
        /\ (arg.t = "str" /\ ~BlankValue(arg) /\ ~MidnightStamp(arg))
              => Text(ret.val) = Text(arg.s)
        /\ (arg.t = "int" \/ (arg.t = "float" /\ arg.v.k = "fin" /\ arg.v.p # 0))
              => Text(ret.val) = Text(PyStr(arg))
        /\ arg = FloatCell(PInf) => Text(ret.val) = "inf"

\* the same but for the strings that hold 00:00:00 without being a date
\* followed by it
C19_ExceptOtherMidnightTexts ==
    (arg.t = "str" /\ ~MidnightStamp(arg) /\ Contains(Chars(Text(arg.s)), Chars("00:00:00")))
        \/ C19_DisplayValue


(* ------------------------------------------------------------------ *)
(* The filename of one row (SpecFilename)                               *)
(* ------------------------------------------------------------------ *)

FileNameCells ==
    {StrCell(<<"Jane", " ", "Doe">>), StrCell(<<"Jane_Doe">>), StrCell(<<" ", "A", " ">>),
     StrCell(<<"A", " ", " ", "B">>), StrCell(<<"\t", "Ann", " ", "Lee", "\n">>),
     StrCell(<<"O'Neil", " ", "J.">>), StrCell(<<>>), StrCell(<<" ">>), Blank, None,
     IntCell(0, 7), Absent,
     StrCell(<<"Ravi", " ", "S/O", " ", "Kumar">>), StrCell(<<"../../", "tmp/", "x">>),
     StrCell(<<"..\\", "x">>)}

FileIdCells ==
    {StrCell(<<"E100">>), StrCell(<<" ", "E", " ", "1", " ">>), IntCell(0, 100),
     FloatCell(Fin(0, 100, 0)), Blank, Absent}

FileRows ==
    {MakeRow([c \in {"employee_name", "employee_id"} |->
                IF c = "employee_name" THEN name ELSE id]) :
        name \in FileNameCells, id \in FileIdCells}

InitFilename ==
    /\ arg \in FileRows
    /\ ret = NoValue
    /\ pc = "call"
    /\ BatchIdle

\* the filename that _build_payslip_files gives the row
BuildFilename ==
    /\ pc = "call"
    /\ ret' = Ret(PayslipFilename(arg))
    /\ pc' = "done"
    /\ UNCHANGED <<arg, columns, rows, missing, idx, file_pairs, rendered, zip, result, error, storeVars>>

NextFilename == BuildFilename

SpecFilename == InitFilename /\ [][NextFilename]_vars

\* the text with the whitespace at both ends dropped and every space
\* replaced by an underscore
Sanitized(text) ==
    LET c == Chars(text)
        kept == {i \in DOMAIN c : ~IsSpace(c[i])}
        first == CHOOSE i \in kept : \A j \in kept : i <= j
        last == CHOOSE i \in kept : \A j \in kept : j <= i
    IN  IF kept = {} THEN ""
        ELSE Text([i \in 1..(last - first + 1) |->
                      IF c[first + i - 1] = " " THEN "_" ELSE c[first + i - 1]])

\* the row's cell as text
CellText(row, key, default) == Text(PyStr(RowGetDefault(row, key, StrCell(<<default>>))))

\* C20: the filename of a row is payslip_<name>_<id>.pdf, <name> and <id>
\* being the employee_name and employee_id as text, trimmed and with every
\* space replaced by an underscore, so that neither part holds a space.
C20_FilenameOfRow ==
    pc = "done" =>
        LET name == Sanitized(CellText(arg, "employee_name", "employee"))
            id == Sanitized(CellText(arg, "employee_id", "id"))
        IN  /\ Text(ret.val) = "payslip_" \o name \o "_" \o id \o ".pdf"
            /\ " " \notin Range(Chars(name)) \cup Range(Chars(id))
            /\ (CellText(arg, "employee_name", "") = "Jane Doe"
                    /\ CellText(arg, "employee_id", "") = "E100")
                  => Text(ret.val) = "payslip_Jane_Doe_E100.pdf"

C20_Witness ==
    /\ pc = "done"
    /\ CellText(arg, "employee_name", "") = "\tAnn Lee\n"
    /\ CellText(arg, "employee_id", "") = " E 1 "
    /\ Text(ret.val) = "payslip_Ann_Lee_E_1.pdf"


(* ------------------------------------------------------------------ *)
(* The file store of views.py under concurrent requests (SpecStore)     *)
(* ------------------------------------------------------------------ *)

\* two requests served at the same time
Requests == {"r1", "r2"}

MaxTokens == 2

\* the values of uuid.uuid4().hex
Tokens == 1..MaxTokens

\* uuid4 repeating values it gave before
uuid4_repeating(drawn) == Tokens

\* uuid.uuid4(): a value that no earlier call returned
uuid4(drawn) == Tokens \ drawn

RECURSIVE Utf8(_)
\* content.encode("utf-8") of a str given by its code points (below 2048)
Utf8(str) ==
    IF str = <<>> THEN <<>>
    ELSE (IF Head(str) < 128 THEN <<Head(str)>>
          ELSE <<192 + (Head(str) \div 64), 128 + (Head(str) % 64)>>)
         \o Utf8(Tail(str))

\* stored of _save_content
Stored(content) == IF content.kind = "str" THEN Utf8(content.data) ELSE content.data

\* d[k] = v of a dict
DictPut(d, k, v) == {item \in d : item.k # k} \cup {[k |-> k, v |-> v]}

\* what dict.get returns for a missing key (None)
NoEntry == <<>>

\* the arguments of _save_content: "%PDF" as bytes, "ok" and "é" as str
SaveArgs ==
    {[content |-> [kind |-> "bytes", data |-> <<37, 80, 68, 70>>],
      content_type |-> "application/pdf", filename |-> "payslip.pdf"],
     [content |-> [kind |-> "str", data |-> <<111, 107>>],
      content_type |-> "text/plain", filename |-> "proposal.txt"],
     [content |-> [kind |-> "str", data |-> <<233>>],
      content_type |-> "text/plain", filename |-> "proposal.txt"]}

NoSave == [content |-> [kind |-> "bytes", data |-> <<>>], content_type |-> "", filename |-> ""]

\* a request outside _save_content; got is the token and result of its last
\* _get_content, known telling whether a put had returned that token
IdleRequest(got) == [pc |-> "idle", token |-> 0, args |-> NoSave, got |-> got]

NoGet == [token |-> 0, value |-> NoEntry, known |-> FALSE]

\* the tokens that uuid4 has returned so far
Drawn ==
    DictKeys(FILE_CACHE) \cup {requests[r].token : r \in DOMAIN requests} \cup {h.token : h \in returned}

InitStore ==
    /\ NoBatch
    /\ arg = None
    /\ ret = NoValue
    /\ pc = "serving"
    /\ FILE_CACHE = {}
    /\ requests = [r \in Requests |-> IdleRequest(NoGet)]
    /\ returned = {}

\* _save_content, line 45: token = uuid.uuid4().hex
SaveToken(r) ==
    /\ requests[r].pc = "idle"
    /\ \E token \in uuid4(Drawn), args \in SaveArgs :
          requests' = [requests EXCEPT ![r] =
                          [pc |-> "store", token |-> token, args |-> args, got |-> @.got]]
    /\ UNCHANGED <<FILE_CACHE, returned, pc, arg, ret, batchVars>>

\* _save_content, lines 46-50: _FILE_CACHE[token] = (stored, content_type, filename)
SaveStore(r) ==
    /\ requests[r].pc = "store"
    /\ FILE_CACHE' = DictPut(FILE_CACHE, requests[r].token,
                             <<Stored(requests[r].args.content),
                               requests[r].args.content_type, requests[r].args.filename>>)
    /\ requests' = [requests EXCEPT ![r].pc = "return"]
    /\ UNCHANGED <<returned, pc, arg, ret, batchVars>>

\* _save_content, line 51: return token
SaveReturn(r) ==
    /\ requests[r].pc = "return"
    /\ returned' = returned \cup {[token |-> requests[r].token, args |-> requests[r].args]}
    /\ requests' = [requests EXCEPT ![r] = IdleRequest(@.got)]
    /\ UNCHANGED <<FILE_CACHE, pc, arg, ret, batchVars>>

\* _get_content(token)
GetContent(r) ==
    /\ requests[r].pc = "idle"
    /\ \E token \in Tokens :
          requests' = [requests EXCEPT ![r].got =
                          [token |-> token, value |-> DictGet(FILE_CACHE, token, NoEntry),
                           known |-> token \in {h.token : h \in returned}]]
    /\ UNCHANGED <<FILE_CACHE, returned, pc, arg, ret, batchVars>>

NextStore ==
    \E r \in Requests : SaveToken(r) \/ SaveStore(r) \/ SaveReturn(r) \/ GetContent(r)

SpecStore == InitStore /\ [][NextStore]_vars

\* the entry that the put h left: the bytes, the content type, the filename
EntryOf(h) ==
    <<IF h.args.content.kind = "bytes" THEN h.args.content.data
      ELSE CASE h.args.content.data = <<111, 107>> -> <<111, 107>>
             [] h.args.content.data = <<233>> -> <<195, 169>>,
      h.args.content_type, h.args.filename>>

\* C21: whatever the interleaving of the requests, every token that a put
\* has returned is in the store with the bytes, content type and filename
\* given to that put, a get of it returns them, and no two puts returned
\* the same token.
C21_StoreKeepsEveryEntry ==
    /\ \A h \in returned : DictGet(FILE_CACHE, h.token, NoEntry) = EntryOf(h)
    /\ \A h, g \in returned : h.token = g.token => h = g
    /\ \A r \in DOMAIN requests :
          requests[r].got.known =>
              \E h \in returned : h.token = requests[r].got.token
                                    /\ requests[r].got.value = EntryOf(h)

\* two puts have returned and a request has read the entry of the first
\* while the second was storing
C21_Witness ==
    /\ Cardinality(returned) = 2
    /\ \E r \in DOMAIN requests :
          /\ requests[r].got.known
          /\ requests[r].got.value = <<<<195, 169>>, "text/plain", "proposal.txt">>

(* ------------------------------------------------------------------ *)
(* The proposal text of views.py (SpecProposal, SpecRenumber)           *)
(* In this section a Python str is a TLA+ string; the two characters    *)
(* of the template outside ASCII, U+2013 and U+2019, are written "-"    *)
(* and "'".                                                             *)
(* ------------------------------------------------------------------ *)

RECURSIVE JoinRange(_, _, _)
\* "\n".join(lines[lo..hi]) for lo <= hi
JoinRange(lines, lo, hi) ==
    IF lo = hi THEN lines[lo]
    ELSE JoinRange(lines, lo, (lo + hi) \div 2) \o "\n"
         \o JoinRange(lines, ((lo + hi) \div 2) + 1, hi)

\* "\n".join(lines)
JoinLines(lines) == IF lines = <<>> THEN "" ELSE JoinRange(lines, 1, Len(lines))

\* the pieces of left followed by those of right, the last of left and the
\* first of right being one piece
Merge(left, right) ==
    SubSeq(left, 1, Len(left) - 1) \o <<left[Len(left)] \o Head(right)>> \o Tail(right)

RECURSIVE Pieces(_, _, _)
\* s[lo..hi].split("\n") for lo <= hi
Pieces(s, lo, hi) ==
    IF \A k \in lo..hi : SubSeq(s, k, k) # "\n" THEN <<SubSeq(s, lo, hi)>>
    ELSE IF lo = hi THEN <<"", "">>
    ELSE Merge(Pieces(s, lo, (lo + hi) \div 2), Pieces(s, ((lo + hi) \div 2) + 1, hi))

\* the pieces without the last one when that is empty
DropEmptyLast(pieces) ==
    IF pieces[Len(pieces)] = "" THEN SubSeq(pieces, 1, Len(pieces) - 1) ELSE pieces

\* text.splitlines() of a text whose line boundaries are newlines
splitlines(text) == IF text = "" THEN <<>> ELSE DropEmptyLast(Pieces(text, 1, Len(text)))

RECURSIVE DigitRun(_, _)
\* the length of the run of digits of line that starts at position i
DigitRun(line, i) ==
    IF i <= Len(line) /\ SubSeq(line, i, i) \in Range(Digits) THEN 1 + DigitRun(line, i + 1) ELSE 0

RECURSIVE SpaceRun(_, _)
\* the length of the run of whitespace of line that starts at position i
SpaceRun(line, i) ==
    IF i <= Len(line) /\ IsSpace(SubSeq(line, i, i)) THEN 1 + SpaceRun(line, i + 1) ELSE 0

RECURSIVE IntOfDigits(_)
\* int(s) of a str of digits
IntOfDigits(s) ==
    IF s = "" THEN 0
    ELSE 10 * IntOfDigits(SubSeq(s, 1, Len(s) - 1))
         + ((CHOOSE i \in DOMAIN Digits : Digits[i] = SubSeq(s, Len(s), Len(s))) - 1)

NoMatch == [matched |-> FALSE, group1 |-> "", group2 |-> ""]

\* the match of ^(\d+)\.\s+(.*)$ given the lengths d of the digits and w of the whitespace
MatchOf(line, d, w) ==
    IF d > 0 /\ SubSeq(line, d + 1, d + 1) = "." /\ w > 0
    THEN [matched |-> TRUE, group1 |-> SubSeq(line, 1, d),
          group2 |-> SubSeq(line, d + 2 + w, Len(line))]
    ELSE NoMatch

\* re.match(r"^(\d+)\.\s+(.*)$", line)
section_match(line) == MatchOf(line, DigitRun(line, 1), SpaceRun(line, DigitRun(line, 1) + 2))

\* the loop body renumbering from section 1 on
RenumberMatched_from_one(line, m) ==
    IF m.matched /\ IntOfDigits(m.group1) >= 1
    THEN Text(NatStr(IntOfDigits(m.group1) - 1)) \o ". " \o m.group2
    ELSE line

\* the body of the loop of _renumber_main_sections for a match m
RenumberMatched(line, m) ==
    IF m.matched /\ IntOfDigits(m.group1) >= 2
    THEN Text(NatStr(IntOfDigits(m.group1) - 1)) \o ". " \o m.group2
    ELSE line

\* the line that the loop appends for line
renumber_line(line) == RenumberMatched(line, section_match(line))

\* out_lines of _renumber_main_sections
RenumberLines(lines) == [i \in DOMAIN lines |-> renumber_line(lines[i])]

\* _renumber_main_sections
_renumber_main_sections(text) == JoinLines(RenumberLines(splitlines(text)))

\* s.upper()
UpperStr(s) == Text([i \in 1..Len(s) |-> Upper(SubSeq(s, i, i))])

\* _proposal_system_title
_proposal_system_title(institution_type) ==
    IF UpperStr(Text(Strip(Chars(institution_type)))) = "SCHOOL"
    THEN "Aveon School Management System (SMS) ERP"
    ELSE "Aveon College Management System (CMS) ERP"

\* a number in at least width digits, as %d and %m and %Y print it
Padded(n, width) ==
    IF Len(NatStr(n)) >= width THEN Text(NatStr(n))
    ELSE Text([i \in 1..(width - Len(NatStr(n))) |-> "0"]) \o Text(NatStr(n))

\* a missing date (None)
NoDate == [d |-> 0, m |-> 0, y |-> 0]

\* proposal_date.strftime("%d/%m/%Y") if proposal_date else "[DD/MM/YYYY]"
ProposalDateStr(proposal_date) ==
    IF proposal_date = NoDate THEN "[DD/MM/YYYY]"
    ELSE Padded(proposal_date.d, 2) \o "/" \o Padded(proposal_date.m, 2) \o "/"
         \o Padded(proposal_date.y, 4)

\* the lines of the f-string of _build_cms_proposal_text
ProposalLines(proposal_title, system_title, client_name, client_location, institution_type, proposal_date_str) ==
    <<
      "Proposal Title: " \o proposal_title,
      "Prepared By: Aveon Infotech Private Limited",
      "Client Name: " \o client_name,
      "Client Location: " \o client_location,
      "Institution Type: " \o institution_type,
      "Date: " \o proposal_date_str,
      "",
      "2. SUBJECT & INTRODUCTION",
      "",
      "Subject: Proposal for Supply, Implementation, Training, and Support of " \o system_title,
      "",
      "Respected Sir/Madam,",
      "",
      "Greetings from Aveon Infotech Private Limited.",
      "",
      "We are pleased to submit this comprehensive proposal for implementation of " \o system_title \o " for " \o client_name \o ", " \o client_location \o ". This proposal is prepared for consideration by the Management, Principal, IQAC, and Purchase Committee, with specific alignment to statutory, accreditation, and institutional governance requirements.",
      "",
      "Our proposed platform is designed to digitize and integrate end-to-end institutional operations across admissions, academics, examination, administration, finance, compliance, and student services through a secure and scalable ERP ecosystem.",
      "",
      "3. PROJECT OVERVIEW",
      "",
      "Aveon CMS ERP is an integrated institutional platform that automates admission, academics, examination, finance, HR, hostel, library, and compliance workflows in a single system. The solution is aligned to CBCS, OBE, NAAC, NIRF, and IQAC requirements, and supports autonomous as well as affiliated colleges. With configurable role-based access, dashboards, analytics, and mobile-first communication, it ensures operational efficiency, statutory readiness, and transparent governance for higher education institutions.",
      "",
      "4. ABOUT AVEON INFOTECH",
      "",
      "Company Name: Aveon Infotech Private Limited",
      "Established: 2012",
      "",
      "Core Domain Expertise:",
      "- College ERP solutions",
      "- School ERP solutions",
      "- Controller of Examination (COE) automation",
      "- NAAC, NIRF, and IQAC support systems",
      "- Hostel and library management",
      "- Payroll and finance management",
      "- Institutional custom software development",
      "",
      "Institutional Delivery Strengths:",
      "- Deep process knowledge of Indian higher-education regulations",
      "- Experience in implementing modules for autonomous and affiliated institutions",
      "- Academic workflow understanding across UG, PG, and professional programs",
      "- Governance-focused implementation approach suitable for purchase committees",
      "",
      "5. SCOPE OF WORK / PROJECT DETAILS",
      "",
      "5.1 Admission & Student Lifecycle",
      "- Online admission enquiry, registration, and application workflows",
      "- Merit list generation and configurable admission rounds",
      "- Document verification and digital admission file",
      "- Fee challan generation and receipt tracking",
      "- Student profile with lifecycle coverage from admission to alumni",
      "- Certificate and document issue tracking",
      "",
      "5.2 Academic Management (CBCS, OBE, Open Electives)",
      "- Academic calendar setup and timetable management",
      "- Program, batch, semester, and section configuration",
      "- CBCS-based curriculum mapping and credit tracking",
      "- Open elective basket creation and student choice allocation",
      "- OBE framework support: CO-PO-PSO mapping and attainment analytics",
      "- Attendance, internal marks, assignment, and tutorial workflows",
      "",
      "5.3 Learning Management System (LMS)",
      "- Course-wise content repository and faculty upload",
      "- Lesson plan tracking and session planning",
      "- Assignment publishing, submission, and evaluation",
      "- Discussion forum and academic announcement board",
      "- Continuous learning records for academic audit readiness",
      "",
      "5.4 Controller of Examination (COE)",
      "- Examination timetable planning and hall allocation",
      "- Examination application and fee processing",
      "- Question paper workflow and secure exam coordination",
      "- Internal/external mark entry with moderation controls",
      "- Grade processing, SGPA/CGPA calculation, and publication",
      "- Revaluation, arrear, supplementary, and result history management",
      "",
      "5.5 Finance, Fees & Accounts",
      "- Configurable fee heads, concessions, and installment structures",
      "- Student fee collection through online/offline modes",
      "- Receipt, ledger, and outstanding management",
      "- Institutional accounting workflows (income/expense/cash-bank)",
      "- Finance dashboards for management decision support",
      "- GST-ready reporting framework where applicable",
      "",
      "5.6 HR & Payroll",
      "- Employee master with service records",
      "- Attendance, leave, and holiday management",
      "- Payroll setup with earnings, deductions, and compliance components",
      "- Payslip generation and salary register reports",
      "- HR letters and service certificate workflows",
      "",
      "5.7 Library, Hostel, Transport, Inventory",
      "- Library accessioning, issue/return, and fine tracking",
      "- Hostel room allocation, occupancy, and mess billing support",
      "- Transport route, stage, and student pass management",
      "- Inventory purchase request, stock issue, and asset tracking",
      "",
      "5.8 NAAC / NIRF / IQAC Modules",
      "- NAAC criteria-wise data capture and evidence mapping",
      "- NIRF data templates and annual comparative analytics",
      "- IQAC action plan tracking and AQAR support data extraction",
      "- Department-wise KPI and compliance-ready reporting",
      "",
      "5.9 Mobile Apps & Communication (SMS, WhatsApp, Email)",
      "- Mobile application access for students, faculty, and parents (as applicable)",
      "- Push notifications for attendance, fees, exam, and circulars",
      "- Integrated SMS/WhatsApp/Email communication workflow",
      "- Role-based alert subscriptions and message log audit",
      "",
      "6. IMPLEMENTATION METHODOLOGY (PHASE-WISE)",
      "",
      "Phase 1: Discovery and Requirement Sign-off",
      "- Stakeholder workshops with Management, Principal, IQAC, COE, Accounts, and Departments",
      "- As-is process study and gap analysis",
      "- Finalization of scope and configuration blueprint",
      "",
      "Phase 2: System Configuration and Master Setup",
      "- Academic structure, users, role matrix, and module parameterization",
      "- Approval hierarchies and workflow setup",
      "- Template and report configuration",
      "",
      "Phase 3: Data Preparation and Migration",
      "- Client submission of validated legacy data in agreed templates",
      "- Data quality checks and controlled import cycles",
      "- Reconciliation and sign-off for migrated records",
      "",
      "Phase 4: Training and User Acceptance Testing (UAT)",
      "- Role-based training for administrators, faculty, and non-teaching staff",
      "- UAT execution against agreed scenarios",
      "- Issue tracking, closure, and acceptance confirmation",
      "",
      "Phase 5: Go-Live and Stabilization",
      "- Module-wise production rollout",
      "- Hypercare support during stabilization period",
      "- Post go-live review and optimization recommendations",
      "",
      "7. PROJECT TIMELINE WITH MILESTONES",
      "",
      "Indicative Duration: 12 to 16 weeks from date of work order and receipt of initial payment",
      "",
      "Milestones:",
      "- Week 1-2: Requirement study and scope freeze",
      "- Week 3-5: System configuration and workflow setup",
      "- Week 6-8: Data migration cycle and validation",
      "- Week 9-11: Training and UAT sign-off",
      "- Week 12-16: Go-live and stabilization",
      "",
      "Delay Disclaimer:",
      "- Timeline is subject to timely client-side approvals, data submission, and nodal coordination.",
      "- Any delay in feedback, incomplete data, change requests beyond signed scope, or postponement of training schedules shall proportionately extend delivery timelines without penalty to Aveon Infotech Private Limited.",
      "",
      "8. PROJECT INVESTMENT",
      "",
      "8.1 Commercial Model (Indicative)",
      "- Per Student Pricing (Annual SaaS License): INR 850 per student per academic year",
      "- Minimum Billing Commitment: 1,000 students",
      "- One-Time Implementation Charges: INR 3,50,000",
      "- Applicable GST: 18% extra on all commercial values",
      "",
      "8.2 Illustration (for 1,000 students)",
      "- Annual License: INR 8,50,000",
      "- Implementation: INR 3,50,000",
      "- Subtotal: INR 12,00,000",
      "- GST @18%: INR 2,16,000",
      "- Total (Year 1): INR 14,16,000",
      "",
      "8.3 Payment Milestones",
      "- 40% of implementation + 100% first-year license: Along with work order / PO release",
      "- 40% of implementation: On completion of configuration and data migration stage",
      "- 20% of implementation: On go-live and UAT sign-off",
      "- Renewal license (from Year 2 onwards): Payable in advance before start of academic year",
      "",
      "9. SUPPORT & MAINTENANCE MODEL",
      "",
      "Support Coverage:",
      "- Helpdesk support through ticketing/email/phone during business hours",
      "- Priority-based issue response and resolution tracking",
      "- Functional assistance for configured workflows",
      "- Minor version updates and performance improvements",
      "",
      "Review and Governance:",
      "- Periodic review meetings with designated institutional coordinators",
      "- Support MIS and closure reports",
      "- Optional annual health-check and optimization advisory",
      "",
      "10. DETAILED TERMS & CONDITIONS",
      "",
      "10.1 Commercial & GST",
      "- All prices are in Indian Rupees (INR).",
      "- GST shall be charged extra at 18% as applicable under law.",
      "- Statutory changes in taxation, if any, shall be additionally applicable.",
      "",
      "10.2 Payment Terms",
      "- Payments are due as per agreed milestone schedule.",
      "- Delayed payments may attract service suspension and applicable delay charges after written notice.",
      "- Purchase order/work order must clearly mention scope, commercials, and tax details.",
      "",
      "10.3 Scope & Customization",
      "- Proposal scope is limited to modules and features explicitly specified herein.",
      "- Additional features, custom reports, integrations, or process changes not in signed scope shall be treated as change requests and commercially evaluated separately.",
      "",
      "10.4 Data Migration Responsibility",
      "- Client shall provide accurate, complete, and validated data in prescribed templates.",
      "- Aveon shall perform migration based on submitted data; data correctness remains client responsibility.",
      "- Rework due to inaccurate/incomplete data shall be handled as additional effort.",
      "",
      "10.5 Implementation Sign-off",
      "- Module completion shall be deemed accepted upon UAT sign-off by authorized client representative.",
      "- If sign-off is delayed beyond 10 working days after successful demonstration/UAT closure without documented critical defects, milestone acceptance shall be considered deemed sign-off.",
      "",
      "10.6 Training",
      "- Role-based training sessions are included as per agreed implementation plan.",
      "- Additional training batches, refresher programs, or off-schedule sessions may be chargeable.",
      "",
      "10.7 Third-Party Integrations",
      "- SMS, WhatsApp, payment gateway, biometric, and other third-party services require active subscriptions/licenses from respective providers.",
      "- Third-party downtime, API policy changes, or vendor service limitations are outside Aveon liability.",
      "",
      "10.8 Hosting & Security",
      "- Hosting may be cloud/on-premise as mutually agreed.",
      "- Client shall ensure required infrastructure readiness for on-premise deployments.",
      "- Aveon follows reasonable industry-standard controls for access, backup, and application security within agreed hosting model.",
      "",
      "10.9 Intellectual Property",
      "- Pre-existing platform IP, source framework, templates, and reusable components remain sole property of Aveon Infotech Private Limited.",
      "- Client receives usage rights for subscribed term and agreed scope.",
      "",
      "10.10 Confidentiality",
      "- Both parties shall maintain confidentiality of non-public business, academic, technical, and student data shared during engagement.",
      "- Confidential information shall not be disclosed to third parties except as required by law.",
      "",
      "10.11 Limitation of Liability",
      "- Aveon's aggregate liability under this engagement shall be limited to fees received by Aveon for the affected service period, excluding indirect, incidental, consequential, or punitive damages.",
      "",
      "10.12 Termination",
      "- Either party may terminate for material breach upon written notice and cure period of 30 days.",
      "- Fees for services rendered up to termination date remain payable.",
      "- Data handover/support at exit shall be provided as per agreed disengagement terms.",
      "",
      "10.13 Governing Law & Jurisdiction",
      "- This proposal and resulting contract shall be governed by the laws of India.",
      "- Courts at Coimbatore, Tamil Nadu shall have exclusive jurisdiction.",
      "",
      "11. WHY PARTNER WITH AVEON INFOTECH",
      "",
      "- Proven institutional ERP capability since 2012",
      "- Domain-led understanding of NAAC, NIRF, IQAC, CBCS, and OBE",
      "- Structured implementation suitable for governing bodies and purchase committees",
      "- Strong blend of academic, administrative, and compliance automation",
      "- Scalable, secure, and support-oriented delivery model",
      "- Long-term partnership approach focused on measurable institutional outcomes",
      "",
      "12. AUTHORIZATION & SIGNATURE",
      "",
      "For Aveon Infotech Private Limited",
      "",
      "Authorized Signatory:",
      "Parvathi G",
      "Chief Executive Officer (CEO)",
      "",
      "Date: ____________________",
      "Place: ___________________",
      "",
      "Acknowledgement by Client:",
      "",
      "Name: ____________________",
      "Designation: ______________",
      "Institution Seal & Signature: ____________________",
      "Date: _____________________"
    >>

\* the f-string: its lines, each ended by a newline
ProposalTemplate(system_title, client_name, client_location, institution_type, proposal_date_str) ==
    JoinLines(ProposalLines("Comprehensive ERP Proposal - " \o system_title, system_title,
                            client_name, client_location, institution_type, proposal_date_str))
    \o "\n"

\* _build_cms_proposal_text
_build_cms_proposal_text(client_name, client_location, institution_type, proposal_date) ==
    _renumber_main_sections(
        ProposalTemplate(_proposal_system_title(institution_type), client_name, client_location,
                         institution_type, ProposalDateStr(proposal_date)))

\* ProposalQuotationForm.INSTITUTION_TYPES
INSTITUTION_TYPES == {"AUTONOMOUS", "AFFILIATED", "ARTS & SCIENCE", "ENGINEERING", "SCHOOL"}

\* the response of proposal_quotation: the page with its context, or a download
Page(has_text, text) == [kind |-> "page", has_text |-> has_text, proposal_text |-> text]
Download(kind, text) == [kind |-> kind, has_text |-> TRUE, proposal_text |-> text]

\* proposal_quotation; request.valid is what form.is_valid() answers
proposal_quotation(request) ==
    IF request.method # "POST" THEN Page(FALSE, "")
    ELSE IF ~request.valid THEN Page(FALSE, "")
    ELSE IF request.action = "download"
         THEN Download("text/plain", _build_cms_proposal_text(
                  request.client_name, request.client_location, request.institution_type,
                  request.proposal_date))
    ELSE IF request.action = "download_pdf"
         THEN Download("application/pdf", _build_cms_proposal_text(
                  request.client_name, request.client_location, request.institution_type,
                  request.proposal_date))
    ELSE Page(TRUE, _build_cms_proposal_text(
                  request.client_name, request.client_location, request.institution_type,
                  request.proposal_date))

\* the submissions: the commercial fields are whole rupees and whole percents
ProposalRequests ==
    [method : {"GET", "POST"}, valid : BOOLEAN, action : {"", "download", "download_pdf"},
     client_name : {"ABC College", "St. Mary's School"}, client_location : {"Coimbatore"},
     institution_type : INSTITUTION_TYPES,
     proposal_date : {[d |-> 6, m |-> 2, y |-> 2026]},
     gst_percent : {18, 12}, one_time_implementation_fee : {350000, 1250000}]

InitProposal ==
    /\ NoBatch /\ StoreIdle
    /\ arg \in ProposalRequests
    /\ ret = NoValue
    /\ pc = "request"

ProposalQuotation ==
    /\ pc = "request"
    /\ ret' = proposal_quotation(arg)
    /\ pc' = "responded"
    /\ UNCHANGED <<arg, batchVars, storeVars>>

NextProposal == ProposalQuotation

SpecProposal == InitProposal /\ [][NextProposal]_vars

\* the ten headings that a generated proposal is to carry
ProposalHeadings ==
    {"1. Executive Summary", "2. About Aveon Infotech Private Limited",
     "3. Scope of Work - Module Overview", "4. Implementation Methodology",
     "5. Project Timeline", "6. Commercial Proposal", "7. Support & Maintenance",
     "8. Key Terms & Conditions", "9. Why Aveon Infotech", "10. Authorization"}

\* a valid submission without a download action has been answered
ProposalShown ==
    pc = "responded" /\ arg.method = "POST" /\ arg.valid /\ arg.action = ""

\* C22: for every valid proposal-quotation submission without a download
\* action, the generated proposal text contains each of the ten top-level
\* section headings "1. Executive Summary" ... "10. Authorization".
C22_TenHeadings ==
    ProposalShown =>
        /\ ret.has_text
        /\ \A heading \in ProposalHeadings :
              \E line \in Range(splitlines(ret.proposal_text)) : Contains(line, heading)

RECURSIVE GroupTwos(_)
\* the digits s in groups of two from the right, separated by commas
GroupTwos(s) ==
    IF Len(s) <= 2 THEN s
    ELSE GroupTwos(SubSeq(s, 1, Len(s) - 2)) \o "," \o SubSeq(s, Len(s) - 1, Len(s))

\* the digits s in Indian grouping: the last three, then groups of two
GroupIndian(s) ==
    IF Len(s) <= 3 THEN s
    ELSE GroupTwos(SubSeq(s, 1, Len(s) - 3)) \o "," \o SubSeq(s, Len(s) - 2, Len(s))

\* the text has a line that contains pat
TextContains(text, pat) == \E line \in Range(splitlines(text)) : Contains(line, pat)

\* C23: the generated proposal text states the submitted GST percentage as
\* "GST: <p>% Extra" and the submitted one-time implementation fee as an INR
\* amount in Indian digit grouping.
C23_SubmittedCommercials ==
    ProposalShown =>
        /\ TextContains(ret.proposal_text, "GST: " \o Text(NatStr(arg.gst_percent)) \o "% Extra")
        /\ TextContains(ret.proposal_text,
                        "INR " \o GroupIndian(Text(NatStr(arg.one_time_implementation_fee))))

(* ------------------------------------------------------------------ *)
(* The net-pay line of the payslip (SpecRender)                         *)
(* ------------------------------------------------------------------ *)

\* C24: on every generated payslip the net pay amount shown equals the
\* Total Earnings amount shown minus the Total Deductions amount shown, as
\* the label of the net-pay line states.  The amounts shown are format_money
\* of net_total, gross_salary and total_deductions.
C24_NetIsEarningsMinusDeductions ==
    Rendered => ret.val.net_total = FSub(ret.val.gross_salary, ret.val.total_deductions)

(* ------------------------------------------------------------------ *)
(* A spreadsheet without data rows (Spec)                               *)
(* ------------------------------------------------------------------ *)

\* C25: for a spreadsheet that has all required columns but zero data rows,
\* generate_payslips either returns a PayslipResult or raises the ValueError
\* that the upload view handles; it raises no other kind of exception.
C25_EmptySheetResultOrValueError ==
    (RequiredMissing = {} /\ rows = <<>> /\ pc \in {"returned", "raised"}) =>
        \/ pc = "returned" /\ result # NoResult
        \/ pc = "raised" /\ error.exc = "ValueError"

(* ------------------------------------------------------------------ *)
(* number_to_words applied to two integer amounts (SpecWordsPair)       *)
(* ------------------------------------------------------------------ *)

\* integer amounts as (crores, rest): small ones, negative ones, and ones
\* around 1000 and 2000 crore
PairAmounts ==
    {IntCell(cr, lo) : cr \in {0, 12, 990, 1000, 1999, -1, -1010}, lo \in {0, 5, 9999995}}
    \cup {IntCell(0, 100), IntCell(0, 33200), IntCell(2000, 0)}

InitWordsPair ==
    /\ arg \in PairAmounts \X PairAmounts
    /\ ret = NoValue
    /\ pc = "call"
    /\ NoBatch /\ StoreIdle

\* number_to_words called on the one amount and on the other
CallNumberToWordsTwice ==
    /\ pc = "call"
    /\ ret' = <<number_to_words(arg[1]), number_to_words(arg[2])>>
    /\ pc' = "done"
    /\ UNCHANGED <<arg, batchVars, storeVars>>

NextWordsPair == CallNumberToWordsTwice

SpecWordsPair == InitWordsPair /\ [][NextWordsPair]_vars

\* C26: number_to_words is injective on integer amounts: whenever it returns
\* for two different integers, negative ones and ones of 1000 crore or more
\* included, the two word strings differ.
C26_WordsInjective ==
    (pc = "done" /\ arg[1] # arg[2] /\ ret[1].exc = "none" /\ ret[2].exc = "none") =>
        Text(ret[1].val) # Text(ret[2].val)

(* ------------------------------------------------------------------ *)
(* Filenames as flat names (SpecFilename)                               *)
(* ------------------------------------------------------------------ *)

PathSeparators == {"/", "\\"}

\* name, given by its characters, has a component ".."
HasParentComponent(name) ==
    \E i \in 1..(Len(name) - 1) :
        /\ name[i] = "." /\ name[i + 1] = "."
        /\ i = 1 \/ name[i - 1] \in PathSeparators
        /\ i + 1 = Len(name) \/ name[i + 2] \in PathSeparators

\* C27: every filename produced by _build_payslip_files is a flat file name:
\* it contains no path separator ("/" or "\") and no ".." component,
\* whatever the employee_name and employee_id cells contain.
C27_FlatFilename ==
    pc = "done" =>
        /\ Range(Chars(Text(ret.val))) \cap PathSeparators = {}
        /\ ~HasParentComponent(Chars(Text(ret.val)))

(* ------------------------------------------------------------------ *)
(* Distinct headers (SpecHeaders)                                       *)
(* ------------------------------------------------------------------ *)

\* C28: normalize_columns never yields two columns with the same name when
\* the raw headers are pairwise distinct: each canonical field occurs at most
\* once in the normalized column list.
C28_DistinctColumns ==
    (pc # "normalize" /\ \A i, j \in DOMAIN arg : i # j => HeaderText(i) # HeaderText(j)) =>
        \A i, j \in DOMAIN columns : i # j => columns[i] # columns[j]

(* ------------------------------------------------------------------ *)
(* _renumber_main_sections applied to a text (SpecRenumber)             *)
(* ------------------------------------------------------------------ *)

MaxLines == 2

LinePool ==
    {"", "Intro", "1. COVER", "2. SUBJECT", "10. TERMS", "5.1 Admission", "2.  WIDE",
     "2.\tTAB", "02. ZERO", "3.", "3.x", "12 apples", " 4. INDENTED", "2. "}

\* the texts: up to MaxLines lines, with or without a newline at the end
RenumberTexts ==
    {JoinLines(lines) \o ending :
        lines \in UNION {[1..n -> LinePool] : n \in 0..MaxLines}, ending \in {"", "\n"}}

InitRenumber ==
    /\ arg \in RenumberTexts
    /\ ret = NoValue
    /\ pc = "call"
    /\ NoBatch /\ StoreIdle

CallRenumberMainSections ==
    /\ pc = "call"
    /\ ret' = _renumber_main_sections(arg)
    /\ pc' = "done"
    /\ UNCHANGED <<arg, batchVars, storeVars>>

NextRenumber == CallRenumberMainSections

SpecRenumber == InitRenumber /\ [][NextRenumber]_vars

\* the lengths d of the leading digits of line for which a dot follows them
NumberedDot(line) ==
    {d \in 1..(Len(line) - 1) :
        /\ \A i \in 1..d : SubSeq(line, i, i) \in Range(Digits)
        /\ SubSeq(line, d + 1, d + 1) = "."}

\* line has the form "<n>. <text>": digits, a dot, one space, any text
HasDotSpaceForm(line) ==
    \E d \in NumberedDot(line) : d + 2 <= Len(line) /\ SubSeq(line, d + 2, d + 2) = " "

\* "<n-1>. <text>" for a line "<n>. <text>"
DotSpaceRewritten(line) ==
    LET d == CHOOSE d \in NumberedDot(line) : TRUE
    IN  Text(NatStr(IntOfDigits(SubSeq(line, 1, d)) - 1)) \o SubSeq(line, d + 1, Len(line))

\* the number of a line that starts with digits and a dot
LineNumber(line) == IntOfDigits(SubSeq(line, 1, CHOOSE d \in NumberedDot(line) : TRUE))

\* C29 as stated: exactly the lines of the form "<n>. <text>" with n >= 2
\* are rewritten to "<n-1>. <text>", every other line is unchanged, and the
\* number and order of the lines are preserved.
C29_RewritesExactly ==
    pc = "done" =>
        /\ Len(splitlines(ret)) = Len(splitlines(arg))
        /\ \A i \in DOMAIN splitlines(arg) :
              i \in DOMAIN splitlines(ret) =>
                  splitlines(ret)[i] =
                      IF HasDotSpaceForm(splitlines(arg)[i]) /\ LineNumber(splitlines(arg)[i]) >= 2
                      THEN DotSpaceRewritten(splitlines(arg)[i])
                      ELSE splitlines(arg)[i]

\* line is digits, a dot, whitespace up to position e - 1, and a rest from e
SectionRest(line) ==
    {e \in 1..(Len(line) + 1) :
        \E d \in NumberedDot(line) :
            /\ d + 2 < e
            /\ \A i \in (d + 2)..(e - 1) : IsSpace(SubSeq(line, i, i))
            /\ e <= Len(line) => ~IsSpace(SubSeq(line, e, e))}

\* the line as the amended claim rewrites it
RenumberedLine(line) ==
    IF SectionRest(line) # {} /\ LineNumber(line) >= 2
    THEN Text(NatStr(LineNumber(line) - 1)) \o ". "
         \o SubSeq(line, CHOOSE e \in SectionRest(line) : TRUE, Len(line))
    ELSE line

\* C29 amended: the lines that are a number n >= 2, a dot, whitespace and a
\* rest become "<n-1>. <rest>" with one space; every other line is kept; the
\* result is these lines in their order, joined by newlines.
C29_RewritesNumberedLines ==
    pc = "done" =>
        ret = JoinLines([i \in DOMAIN splitlines(arg) |-> RenumberedLine(splitlines(arg)[i])])

\* a heading with a tab after the dot is renumbered, a line numbered 1 is kept
C29_Witness ==
    /\ pc = "done"
    /\ arg = "2.\tTAB\n1. COVER\n"
    /\ ret = "1. TAB\n1. COVER"

(* ------------------------------------------------------------------ *)
(* Section numbers of the proposal text (SpecProposal)                  *)
(* ------------------------------------------------------------------ *)

\* a top-level heading "M. ..."
IsMainHeading(line) == SectionRest(line) # {}

\* a sub-section heading "M.K ..."
IsSubHeading(line) ==
    \E d \in NumberedDot(line) : d + 2 <= Len(line) /\ SubSeq(line, d + 2, d + 2) \in Range(Digits)

\* every sub-section heading of lines follows a top-level heading, and the
\* nearest one before it has the sub-section's major number
NumberingConsistent(lines) ==
    \A i \in DOMAIN lines :
        IsSubHeading(lines[i]) =>
            \E j \in 1..(i - 1) :
                /\ IsMainHeading(lines[j])
                /\ \A k \in (j + 1)..(i - 1) : ~IsMainHeading(lines[k])
                /\ LineNumber(lines[j]) = LineNumber(lines[i])

\* C30: in the text returned by _build_cms_proposal_text every sub-section
\* heading "M.K ..." lies under the top-level heading numbered M.
C30_SubsectionsUnderTheirSection ==
    (pc = "responded" /\ ret.has_text) => NumberingConsistent(splitlines(ret.proposal_text))

====
